---------------------------- MODULE Spec2Model ----------------------------
(***************************************************************************)
(* Model of the chat relay of AnythingAI: the bounded request queue        *)
(* (withQueue), the retry with exponential backoff of the generation       *)
(* client (withBackoff), the generator streamGenerateContent and the       *)
(* handler of POST /api/chat/stream with its SSE response.                 *)
(*                                                                         *)
(* The specifications share the variables:                                 *)
(*   BackoffSpec     withBackoff applied to every scripted upstream        *)
(*   QueueSpec       withQueue with task bodies that resolve or reject     *)
(*   AccessSpec      checkDepartmentAccess applied to every request        *)
(*   WebSpec         maybeGetWebResults applied to every search outcome    *)
(*   ContentsSpec    buildContents applied to every payload                *)
(*   CountSpec       countInputTokens against every upstream behaviour     *)
(*   Spec            the middlewares, the chat handler, its queue task     *)
(*                   and its response                                      *)
(*   FairSpec        Spec with the fairness of the event loop              *)
(*   DisconnectSpec  Spec with clients that close the connection           *)
(*   ConvSpec        the chat tasks and a DELETE on the shared database    *)
(*   HistorySpec     the history read for a request                        *)
(*   StreamSpec      the frames of a response and their payloads           *)
(***************************************************************************)
EXTENDS Integers, Sequences, FiniteSets, TLC

VARIABLES
    concurrency,  \* CONCURRENCY of the process, read once at start
    running,      \* tasks the queue counts as executing (p-queue's pending)
    waiting,      \* tasks waiting for a slot, in arrival order
    submitted,    \* observation: tasks in the order withQueue was called
    started,      \* observation: tasks in the order their body began
    bodyRuns,     \* observation: times each task's body was entered
    pc,           \* position of each request / task
    req,          \* the inputs of each request
    res,          \* the HTTP response of each request
    caught,       \* the error each request's catch block received
    gen,          \* the state of each request's generator and relay loop
    db,           \* what each request has persisted (conversation, messages)
    bk,           \* withBackoff's scripted upstream and its outcome
    call          \* a function of the program applied to an input: its result

vars == <<concurrency, running, waiting, submitted, started, bodyRuns, pc,
          req, res, caught, gen, db, bk, call>>

queueVars == <<concurrency, running, waiting, submitted, started, bodyRuns>>
handlerVars == <<req, res, caught, gen, db>>
fnVars == <<bk, call>>

-----------------------------------------------------------------------------
(* Program constants *)

MAX_RETRIES == 4
INITIAL_BACKOFF_MS == 1000
DEFAULT_CONCURRENCY == 3
ACCESS_CODE_DIGITS == 4
WEB_RESULTS_LIMIT == 20
HISTORY_WINDOW == 4
HISTORY_LIMIT == 40
SHORT_HISTORY == 2

(* Bounds of the model *)

NumReq == 2            \* chat requests of Spec
NumTasks == 4          \* tasks of QueueSpec
MaxChunks == 1         \* chunks an upstream stream delivers
MaxScriptLen == 5      \* scripted upstream calls of BackoffSpec
MaxEnvConcurrency == 1 \* largest AI_QUEUE_CONCURRENCY set in the environment
MaxSearches == 3        \* searches one message makes (its query variations)
MaxHistory == 5         \* turns of a history given to buildContents
MaxTokens == 30         \* the largest totalTokens the upstream reports
MaxCodeLen == 4        \* characters of an accessCode of AccessSpec

Reqs == 1..NumReq
Tasks == 1..NumTasks

-----------------------------------------------------------------------------
(* Errors.  An error is what the handlers look at: whether it has a        *)
(* `status` property, that status, and the marker substrings its message   *)
(* contains.                                                               *)

NoErr == [hasStatus |-> FALSE, status |-> 0, msg |-> {"none"}]
ErrHttp429 == [hasStatus |-> TRUE, status |-> 429, msg |-> {}]
ErrQuotaMsg == [hasStatus |-> FALSE, status |-> 0, msg |-> {"quota"}]
ErrHttp500Quota == [hasStatus |-> TRUE, status |-> 500, msg |-> {"quota"}]
ErrTimeout == [hasStatus |-> FALSE, status |-> 0, msg |-> {"timeout"}]
ErrPlain == [hasStatus |-> FALSE, status |-> 0, msg |-> {}]
ErrFetch == [hasStatus |-> FALSE, status |-> 0, msg |-> {"fetch failed"}]
ErrMessageCreate(role) == [hasStatus |-> FALSE, status |-> 0, msg |-> {role}]

UpstreamErrors == {ErrHttp429, ErrQuotaMsg, ErrHttp500Quota, ErrTimeout}

isRateLimitError(err) ==
    IF err.hasStatus
    THEN err.status = 429
    ELSE err.msg \cap {"429", "resource exhausted", "quota"} # {}

isTimeoutError(err) ==
    err.msg \cap {"timeout", "ETIMEDOUT", "deadline"} # {}

normalizeError(err) ==
    IF isRateLimitError(err) THEN "QUOTA_EXCEEDED"
    ELSE IF isTimeoutError(err) THEN "TIMEOUT"
    ELSE "SERVER_ERROR"

-----------------------------------------------------------------------------
(* withBackoff.  The upstream is a script: the outcome of its i-th call,   *)
(* the last outcome repeating for ever.  A successful call returns the     *)
(* stream it opened, named by the number of the call.                      *)

OkOutcome == [ok |-> TRUE, err |-> NoErr]
Fail(e) == [ok |-> FALSE, err |-> e]
Outcomes == {OkOutcome} \cup {Fail(e) : e \in UpstreamErrors}

Scripts(n) == UNION {[1..k -> Outcomes] : k \in 1..n}

CallFn(script, i) == IF i <= Len(script) THEN script[i] ELSE script[Len(script)]

BackoffDelayLinear(attempt) == INITIAL_BACKOFF_MS * (attempt + 1)

BackoffDelay(attempt) == INITIAL_BACKOFF_MS * (2 ^ attempt)

ShouldRethrowOneMore(err, attempt) ==
    ~isRateLimitError(err) \/ attempt > MAX_RETRIES

ShouldRethrowWhenExhausted(err, attempt) == attempt >= MAX_RETRIES

ShouldRethrow(err, attempt) ==
    ~isRateLimitError(err) \/ attempt >= MAX_RETRIES

NoLog == [calls |-> 0, delays |-> <<>>]

RECURSIVE withBackoff(_, _, _)
withBackoff(script, attempt, log) ==
    LET callNo == log.calls + 1
        out == CallFn(script, callNo)
    IN  IF out.ok
        THEN [status |-> "returned", value |-> callNo, err |-> NoErr,
              calls |-> callNo, delays |-> log.delays]
        ELSE IF ShouldRethrow(out.err, attempt)
        THEN [status |-> "thrown", value |-> 0, err |-> out.err,
              calls |-> callNo, delays |-> log.delays]
        ELSE withBackoff(script, attempt + 1,
                         [calls |-> callNo,
                          delays |-> Append(log.delays, BackoffDelay(attempt))])

NoResult == [status |-> "none", value |-> 0, err |-> NoErr,
             calls |-> 0, delays |-> <<>>]

-----------------------------------------------------------------------------
(* The queue: aiQueue = new PQueue({ concurrency: CONCURRENCY }).          *)

ConfigConcurrency(env) == IF env = 0 THEN DEFAULT_CONCURRENCY ELSE env

ConcurrencyValues == {ConfigConcurrency(e) : e \in 0..MaxEnvConcurrency}

SlotFreeOffByOne(n, c) == n <= c

SlotFree(n, c) == n < c

NextToStartNewest(q) == q[Len(q)]

NextToStart(q) == Head(q)

Without(q, t) == SelectSeq(q, LAMBDA x : x # t)

\* The queue starts the next waiting task when a slot is free.
TryToStartAnother(q, n, c) ==
    IF q # <<>> /\ SlotFree(n, c)
    THEN [waiting |-> Without(q, NextToStart(q)), running |-> n + 1,
          start |-> {NextToStart(q)}]
    ELSE [waiting |-> q, running |-> n, start |-> {}]

PendingAfterLeakOnFailure(n, ok) == IF ok THEN n - 1 ELSE n

\* A settled task gives its slot back, whether it resolved or rejected.
PendingAfter(n, ok) == n - 1

SeqOfSet(S) == IF S = {} THEN <<>> ELSE <<CHOOSE x \in S : TRUE>>


-----------------------------------------------------------------------------
(* Values of the variables a specification does not use *)

NoBackoff == [script |-> <<OkOutcome>>, result |-> NoResult]
NoCall == [input |-> <<>>, done |-> FALSE, result |-> <<>>]

QueueIdle ==
    /\ running = 0
    /\ waiting = <<>>
    /\ submitted = <<>>
    /\ started = <<>>

HandlerIdle ==
    /\ req = <<>>
    /\ res = <<>>
    /\ caught = <<>>
    /\ gen = <<>>
    /\ db = <<>>

-----------------------------------------------------------------------------
(* BackoffSpec: withBackoff(fn) for every scripted upstream fn *)

BackoffInit ==
    /\ bk \in {[script |-> s, result |-> NoResult] : s \in Scripts(MaxScriptLen)}
    /\ concurrency = DEFAULT_CONCURRENCY
    /\ QueueIdle
    /\ bodyRuns = <<>>
    /\ pc = <<>>
    /\ HandlerIdle
    /\ call = NoCall

BackoffRun ==
    /\ bk.result.status = "none"
    /\ bk' = [bk EXCEPT !.result = withBackoff(bk.script, 0, NoLog)]
    /\ UNCHANGED <<queueVars, pc, handlerVars, call>>

BackoffNext == BackoffRun

BackoffSpec == BackoffInit /\ [][BackoffNext]_vars

-----------------------------------------------------------------------------
(* QueueSpec: withQueue(fn) for task bodies that resolve or reject *)

QueueInit ==
    /\ concurrency \in ConcurrencyValues
    /\ QueueIdle
    /\ bodyRuns = [t \in Tasks |-> 0]
    /\ pc = [t \in Tasks |-> "idle"]
    /\ HandlerIdle
    /\ bk = NoBackoff
    /\ call = NoCall

\* withQueue(fn): aiQueue.add(fn) puts the task in line and starts the head
\* of the line at once when a slot is free.
QSubmit(t) ==
    /\ pc[t] = "idle"
    /\ LET a == TryToStartAnother(Append(waiting, t), running, concurrency)
       IN  /\ waiting' = a.waiting
           /\ running' = a.running
           /\ started' = started \o SeqOfSet(a.start)
           /\ bodyRuns' = [x \in Tasks |->
                             IF x \in a.start THEN bodyRuns[x] + 1 ELSE bodyRuns[x]]
           /\ pc' = [x \in Tasks |->
                       IF x \in a.start THEN "running"
                       ELSE IF x = t THEN "queued" ELSE pc[x]]
    /\ submitted' = Append(submitted, t)
    /\ UNCHANGED <<concurrency, handlerVars, fnVars>>

\* The body of a running task settles: its promise resolves (ok) or rejects.
\* The queue takes the slot back and starts the head of the line.
QSettle(t, ok) ==
    /\ pc[t] = "running"
    /\ LET a == TryToStartAnother(waiting, PendingAfter(running, ok), concurrency)
       IN  /\ waiting' = a.waiting
           /\ running' = a.running
           /\ started' = started \o SeqOfSet(a.start)
           /\ bodyRuns' = [x \in Tasks |->
                             IF x \in a.start THEN bodyRuns[x] + 1 ELSE bodyRuns[x]]
           /\ pc' = [x \in Tasks |->
                       IF x \in a.start THEN "running"
                       ELSE IF x = t THEN (IF ok THEN "resolved" ELSE "rejected")
                       ELSE pc[x]]
    /\ UNCHANGED <<concurrency, submitted, handlerVars, fnVars>>

QueueNext ==
    \/ \E t \in Tasks : QSubmit(t)
    \/ \E t \in Tasks : QSettle(t, TRUE)
    \/ \E t \in Tasks : QSettle(t, FALSE)

QueueSpec == QueueInit /\ [][QueueNext]_vars

-----------------------------------------------------------------------------
(* Spec: POST /api/chat/stream.  protect and checkDepartmentAccess have     *)
(* passed; a request enters the handler, is validated, opens its SSE        *)
(* response and hands its task to the queue.  The task body is cut at its   *)
(* awaits; each action runs the code from one await to the next.            *)

Frame(type, text, code) == [type |-> type, text |-> text, code |-> code]
ConversationFrame == Frame("conversation", <<>>, "")
MetaFrame == Frame("meta", <<>>, "")
TokenFrame(i) == Frame("token", <<i>>, "")
DoneFrame == Frame("done", <<>>, "")
ErrorFrame(code) == Frame("error", <<>>, code)

\* frames: the frames handed to res.write; ended: res.writableEnded;
\* destroyed: the client has closed the connection
NoResponse ==
    [headersSent |-> FALSE, status |-> 0, json |-> "", frames |-> <<>>,
     ended |-> FALSE, destroyed |-> FALSE]

\* a request that has not been read: no Authorization header looked at yet
NoCredentials == [header |-> "unset", token |-> "", user |-> "found"]
NoRequest == [hasConv |-> FALSE, cred |-> NoCredentials]
NoGen == [web |-> FALSE, tokens |-> 0, yielded |-> <<>>, acc |-> <<>>]

\* A persisted message.  A text is a sequence of pieces: the text of the
\* i-th chunk of a stream is <<i>>, UserText is what the handler stores for
\* the user turn (the message, or '[image]') and NoResponseText is
\* '(no response)'.
Message(role, text) == [role |-> role, text |-> text]
UserText == <<0>>
NoResponseText == <<-1>>

NoRows == [conversation |-> FALSE, messages |-> <<>>]

\* res.status(statusCode).json(body), unless the headers are already sent
sendJsonError(response, code, statusCode) ==
    IF response.headersSent THEN response
    ELSE [response EXCEPT !.headersSent = TRUE, !.status = statusCode,
                          !.json = code, !.ended = TRUE]

flushHeadersDeferred(response) == response

\* res.setHeader(...) x 4; res.flushHeaders()
flushHeaders(response) ==
    [response EXCEPT !.headersSent = TRUE, !.status = 200]

\* res.write(`data: ${JSON.stringify(frame)}\n\n`)
write(response, frame) == [response EXCEPT !.frames = Append(@, frame)]

\* writes the error frame, unless the headers are already sent
sendSSEError(response, code) ==
    IF response.headersSent THEN response
    ELSE write(response, ErrorFrame(code))

EndIfNotEndedSkippingOpenStreams(response) ==
    IF response.ended \/ response.headersSent THEN response
    ELSE [response EXCEPT !.ended = TRUE]

\* if (!res.writableEnded) res.end()
EndIfNotEnded(response) ==
    IF response.ended THEN response ELSE [response EXCEPT !.ended = TRUE]

\* the upstreams generateContentStream is run against in Spec
MainScripts ==
    {<<OkOutcome>>, <<Fail(ErrHttp429), OkOutcome>>, <<Fail(ErrHttp429)>>,
     <<Fail(ErrTimeout)>>}

StreamErrors == {ErrTimeout}

\* maybeGetWebResults: null for an empty message, else the search results
\* (performWebSearch catches its own failures and still returns a list)
maybeGetWebResults(kind) == kind = "text"

MetaEventsTwice(web) == IF web THEN <<MetaFrame, MetaFrame>> ELSE <<>>

\* if (web) yield { type: 'meta', ... }
MetaEvents(web) == IF web THEN <<MetaFrame>> ELSE <<>>

RECURSIVE WriteAll(_, _)
WriteAll(response, frames) ==
    IF frames = <<>> THEN response
    ELSE WriteAll(write(response, Head(frames)), Tail(frames))

RelayBreaksWhenDestroyed(response) == response.ended \/ response.destroyed

\* if (res.writableEnded) break;
RelayBreaks(response) == response.ended

RelayTwice(response, frame) ==
    IF RelayBreaks(response) THEN response
    ELSE write(write(response, frame), frame)

\* the relay loop's body for one yielded event:
\* if (res.writableEnded) break; ... res.write(...)
Relay(response, frame) ==
    IF RelayBreaks(response) THEN response ELSE write(response, frame)

AccumulateNothing(acc, frame) == acc

\* if (type === 'token') accumulatedText += text
Accumulate(acc, frame) ==
    IF frame.type = "token" THEN acc \o frame.text ELSE acc

PersistedTextAsAccumulated(acc) == acc

\* text: accumulatedText || '(no response)'
PersistedText(acc) == IF acc = <<>> THEN NoResponseText ELSE acc

-----------------------------------------------------------------------------
(* The middlewares of the route: protect, then checkDepartmentAccess.  A   *)
(* middleware either answers the request or calls next().  Strings are     *)
(* sequences of characters; a value of the body or the database is a kind   *)
(* ("undefined", "null", "string", "array") and, for a string or for the   *)
(* first element of an array, its text.                                    *)

Space == " "
Digits == {"0", "1", "2", "3", "4", "5", "6", "7", "8", "9"}

Undefined == [kind |-> "undefined", text |-> <<>>]
Null == [kind |-> "null", text |-> <<>>]
Str(s) == [kind |-> "string", text |-> s]
ArrayOf(s) == [kind |-> "array", text |-> s]

RECURSIVE TrimStart(_)
TrimStart(s) ==
    IF s # <<>> /\ Head(s) = Space THEN TrimStart(Tail(s)) ELSE s

RECURSIVE TrimEnd(_)
TrimEnd(s) ==
    IF s # <<>> /\ s[Len(s)] = Space
    THEN TrimEnd(SubSeq(s, 1, Len(s) - 1))
    ELSE s

\* String.prototype.trim
Trim(s) == TrimEnd(TrimStart(s))

IsAccessCodeFormatAnyLength(s) == \A i \in 1..Len(s) : s[i] \in Digits

\* /^\d{4}$/.test(s)
IsAccessCodeFormat(s) ==
    /\ Len(s) = ACCESS_CODE_DIGITS
    /\ \A i \in 1..Len(s) : s[i] \in Digits

\* sendJsonError(res, code, message, status); return
Rejected(response, code, statusCode) ==
    [res |-> sendJsonError(response, code, statusCode), next |-> FALSE]

\* next()
Passed(response) == [res |-> response, next |-> TRUE]

\* The Authorization header, what verifyToken makes of its token and what
\* User.findById makes of the token's user.
Credentials ==
    {[header |-> "none", token |-> "", user |-> "found"],
     [header |-> "other", token |-> "good", user |-> "found"],
     [header |-> "bearer", token |-> "", user |-> "found"],
     [header |-> "bearer", token |-> "bad", user |-> "found"]}
    \cup {[header |-> "bearer", token |-> "good", user |-> u] :
             u \in {"found", "notFound", "throws"}}

protectAcceptingUnknownUser(response, cred) ==
    IF cred.header # "bearer" \/ cred.token = ""
    THEN Rejected(response, "UNAUTHORIZED", 401)
    ELSE IF cred.token # "good"
    THEN Rejected(response, "UNAUTHORIZED", 401)
    ELSE IF cred.user = "throws"
    THEN Rejected(response, "SERVER_ERROR", 500)
    ELSE Passed(response)

protect(response, cred) ==
    IF cred.header # "bearer" \/ cred.token = ""
    THEN Rejected(response, "UNAUTHORIZED", 401)
    ELSE IF cred.token # "good"
    THEN Rejected(response, "UNAUTHORIZED", 401)
    ELSE IF cred.user = "throws"
    THEN Rejected(response, "SERVER_ERROR", 500)
    ELSE IF cred.user = "notFound"
    THEN Rejected(response, "UNAUTHORIZED", 401)
    ELSE Passed(response)

\* a: whether req.user is set, the department of the user, the departmentId
\* of the body ("" when there is none), what Department.findById makes of
\* it, the accessCode it stores and the accessCode of the body.
checkDepartmentAccess(response, a) ==
    IF ~a.user
    THEN Rejected(response, "UNAUTHORIZED", 401)
    ELSE IF a.departmentId = ""
    THEN Rejected(response, "BAD_REQUEST", 400)
    ELSE IF a.userDept # a.departmentId
    THEN Rejected(response, "FORBIDDEN", 403)
    ELSE IF a.lookup = "throws"
    THEN Rejected(response, "SERVER_ERROR", 500)
    ELSE IF a.lookup = "notFound"
    THEN Rejected(response, "BAD_REQUEST", 400)
    ELSE LET storedCode == IF a.stored.kind = "string"
                           THEN Trim(a.stored.text) ELSE <<>>
             codeStr == Trim(a.accessCode.text)
         IN  IF storedCode = <<>>
             THEN Passed(response)
             ELSE IF a.accessCode.kind \in {"undefined", "null"}
                     \/ a.accessCode = Str(<<>>)
             THEN Rejected(response, "FORBIDDEN", 403)
             ELSE IF ~IsAccessCodeFormat(codeStr)
             THEN Rejected(response, "BAD_REQUEST", 400)
             ELSE IF storedCode # codeStr
             THEN Rejected(response, "FORBIDDEN", 403)
             ELSE Passed(response)

CodeChars == {"1", Space, "a"}
Strings(n) == UNION {[1..k -> CodeChars] : k \in 0..n}

Code1111 == <<"1", "1", "1", "1">>
Code2222 == <<"2", "2", "2", "2">>

StoredCodes ==
    {Undefined, Null, Str(<<>>), Str(<<Space>>), Str(<<"1">>), Str(Code1111),
     Str(<<Space>> \o Code1111 \o <<Space>>), Str(Code2222)}

SuppliedCodes ==
    {Undefined, Null, ArrayOf(<<>>), ArrayOf(Code1111)}
    \cup {Str(s) : s \in Strings(MaxCodeLen)}

AccessInputs ==
    [user : BOOLEAN, userDept : {"A", "B"}, departmentId : {"", "A", "B"},
     lookup : {"found", "notFound", "throws"}, stored : StoredCodes,
     accessCode : SuppliedCodes]

\* the requests Spec sends through checkDepartmentAccess
AccessCases ==
    [user : {TRUE}, userDept : {"A"}, departmentId : {"", "A", "B"},
     lookup : {"found"}, stored : {Null, Str(Code1111)},
     accessCode : {Undefined, Str(Code1111), Str(<<"a">>)}]

(* AccessSpec: checkDepartmentAccess applied to every request of AccessInputs *)

AccessInit ==
    /\ call \in {[input |-> a, done |-> FALSE, result |-> Passed(NoResponse)] :
                   a \in AccessInputs}
    /\ concurrency = DEFAULT_CONCURRENCY
    /\ QueueIdle
    /\ bodyRuns = <<>>
    /\ pc = <<>>
    /\ HandlerIdle
    /\ bk = NoBackoff

AccessRun ==
    /\ ~call.done
    /\ call' = [call EXCEPT !.done = TRUE,
                            !.result = checkDepartmentAccess(NoResponse, call.input)]
    /\ UNCHANGED <<queueVars, pc, handlerVars, bk>>

AccessNext == AccessRun

AccessSpec == AccessInit /\ [][AccessNext]_vars

-----------------------------------------------------------------------------
(* The web search provider: performWebSearch and maybeGetWebResults (which   *)
(* the specification calls resolveWebContext).  A URL is a sequence of       *)
(* characters.                                                               *)

SearchResult(title, link, snippet) ==
    [title |-> title, link |-> link, snippet |-> snippet]

\* what performWebSearch returns, in a list of its own, for a search it
\* could not make
SearchUnavailable(snippet) == SearchResult("Search unavailable", <<>>, snippet)

SearchFailures == {"missing key", "http status", "quota", "thrown"}

Links ==
    {<<"a">>, <<"A">>, <<"a", "/">>, <<"a", "?", "b">>,
     <<"a", "/", "?", "b">>, <<"b">>}

\* the results a search may find: each has a title and a link; the snippet
\* may be empty
SearchResults == {SearchResult("t", l, s) : l \in Links, s \in {"", "s"}}

Failed(f) == [ok |-> FALSE, failure |-> f, items |-> <<>>]
Found(items) == [ok |-> TRUE, failure |-> "", items |-> items]

\* The outcome of one search: a failure, no result, or one result.
SearchOutcomes ==
    {Failed(f) : f \in SearchFailures}
        \cup {Found(<<>>)} \cup {Found(<<x>>) : x \in SearchResults}

HasLink(x) == x.link # <<>>

\* performWebSearch: the list of a search's results, or the one
\* 'Search unavailable' entry when the key is missing, the status is not OK,
\* the quota is exceeded or the request throws.
performWebSearch(outcome) ==
    IF outcome.ok THEN SelectSeq(outcome.items, HasLink)
    ELSE <<SearchUnavailable(outcome.failure)>>

\* .replace(/\/$/, '')
RemoveTrailingSlash(url) ==
    IF url # <<>> /\ url[Len(url)] = "/" THEN SubSeq(url, 1, Len(url) - 1)
    ELSE url

\* .split('?')[0]
RECURSIVE BeforeQuery(_)
BeforeQuery(url) ==
    IF url = <<>> \/ Head(url) = "?" THEN <<>>
    ELSE <<Head(url)>> \o BeforeQuery(Tail(url))

\* .toLowerCase()
ToLowerCase(url) == [i \in 1..Len(url) |-> IF url[i] = "A" THEN "a" ELSE url[i]]

NormalizeUrl(link) == ToLowerCase(BeforeQuery(RemoveTrailingSlash(link)))

\* the two loops over allResults: a result is kept when its normalized URL
\* was not seen before and its link is not empty
RECURSIVE Aggregate(_, _, _)
Aggregate(found, seenUrls, kept) ==
    IF found = <<>> THEN kept
    ELSE LET result == Head(found)
             normalizedUrl == NormalizeUrl(result.link)
         IN  IF normalizedUrl \notin seenUrls /\ result.link # <<>>
             THEN Aggregate(Tail(found), seenUrls \cup {normalizedUrl},
                            Append(kept, result))
             ELSE Aggregate(Tail(found), seenUrls, kept)

Score(x) == (IF x.title # "" THEN 1 ELSE 0) + (IF x.snippet # "" THEN 1 ELSE 0)

ScoreIs2(x) == Score(x) = 2
ScoreIs1(x) == Score(x) = 1
ScoreIs0(x) == Score(x) = 0

\* aggregatedResults.sort((a, b) => bScore - aScore): a stable sort
SortByScore(results) ==
    SelectSeq(results, ScoreIs2) \o SelectSeq(results, ScoreIs1)
        \o SelectSeq(results, ScoreIs0)

\* .slice(0, 20)
Slice(results, n) == SubSeq(results, 1, IF Len(results) < n THEN Len(results) ELSE n)

RECURSIVE Flatten(_)
Flatten(lists) ==
    IF lists = <<>> THEN <<>> ELSE Head(lists) \o Flatten(Tail(lists))

NullWeb == [null |-> TRUE, results |-> <<>>]
Web(results) == [null |-> FALSE, results |-> results]

\* maybeGetWebResults for a message that is blank or not, the searches of its
\* query variations having the outcomes given
resolveWebContext(blank, outcomes) ==
    IF blank THEN NullWeb
    ELSE LET allResults == [i \in 1..Len(outcomes) |-> performWebSearch(outcomes[i])]
         IN  Web(Slice(SortByScore(Aggregate(Flatten(allResults), {}, <<>>)),
                       WEB_RESULTS_LIMIT))

\* the searches of a message: those of its query variations, none for a
\* blank message
WebInputs ==
    {[blank |-> TRUE, outcomes |-> <<>>]}
        \cup {[blank |-> FALSE, outcomes |-> o] :
                o \in UNION {[1..k -> SearchOutcomes] : k \in 1..MaxSearches}}

(* WebSpec: maybeGetWebResults applied to every input of WebInputs *)

WebInit ==
    /\ call \in {[input |-> w, done |-> FALSE, result |-> NullWeb] : w \in WebInputs}
    /\ concurrency = DEFAULT_CONCURRENCY
    /\ QueueIdle
    /\ bodyRuns = <<>>
    /\ pc = <<>>
    /\ HandlerIdle
    /\ bk = NoBackoff

WebRun ==
    /\ ~call.done
    /\ call' = [call EXCEPT !.done = TRUE,
                            !.result = resolveWebContext(call.input.blank,
                                                         call.input.outcomes)]
    /\ UNCHANGED <<queueVars, pc, handlerVars, bk>>

WebNext == WebRun

WebSpec == WebInit /\ [][WebNext]_vars

-----------------------------------------------------------------------------
(* buildContents and isFollowUpQuestion.  A history turn is its role and    *)
(* its text; the text of the i-th turn of a history is HistoryTexts[i], so   *)
(* the turns of one history differ.  Of the message buildContents reads its  *)
(* text and what isFollowUpQuestion tests on it.                             *)

HistoryTexts == <<"h1", "h2", "h3", "h4", "h5", "h6", "h7", "h8">>

Turn(role, text) == [role |-> role, text |-> text]

Histories(n) ==
    UNION {{[i \in 1..k |-> Turn(roles[i], HistoryTexts[i])] :
               roles \in [1..k -> {"user", "model"}]} : k \in 0..n}

\* a message: whether it starts with a follow-up indicator, is shorter than
\* 20 characters, holds a '?', holds an indicator anywhere
MessageShapes ==
    {m \in [starts : BOOLEAN, short : BOOLEAN, question : BOOLEAN,
            includes : BOOLEAN] : m.starts => m.includes}

MessageText == "message"

isFollowUpQuestion(currentMessage, history) ==
    IF history = <<>> THEN FALSE
    ELSE LET startsWithFollowUp == currentMessage.starts
             isShortFollowUp ==
                 currentMessage.short
                     /\ (currentMessage.question \/ currentMessage.includes)
         IN  startsWithFollowUp \/ isShortFollowUp

SliceFirst(seq, n) == SubSeq(seq, 1, IF Len(seq) < n THEN Len(seq) ELSE n)

\* seq.slice(-n)
SliceLast(seq, n) ==
    SubSeq(seq, IF Len(seq) < n THEN 1 ELSE Len(seq) - n + 1, Len(seq))

\* role: turn.role === 'user' ? 'user' : 'model', parts: [{ text }]
Content(role, text, image) ==
    [role |-> IF role = "user" THEN "user" ELSE "model", text |-> text,
     image |-> image]

ContextContents(present, text) ==
    IF present THEN <<Content("user", text, FALSE)>> ELSE <<>>

\* buildContents: the message itself for a single turn with nothing to add,
\* else the list of contents
buildContents(p) ==
    LET hasHistory == p.history # <<>>
        isFollowUp == IF hasHistory THEN isFollowUpQuestion(p.message, p.history)
                      ELSE FALSE
        recentHistory ==
            IF hasHistory /\ (isFollowUp \/ Len(p.history) <= SHORT_HISTORY)
            THEN SliceLast(p.history, HISTORY_WINDOW)
            ELSE <<>>
    IN  IF ~hasHistory /\ ~p.hasImage /\ ~p.weather /\ ~p.time /\ ~p.web
        THEN [plain |-> TRUE, contents |-> <<>>]
        ELSE [plain |-> FALSE,
              contents |->
                  [i \in 1..Len(recentHistory) |->
                      Content(recentHistory[i].role, recentHistory[i].text, FALSE)]
                  \o ContextContents(p.time, "time")
                  \o ContextContents(p.weather, "weather")
                  \o ContextContents(p.web, "web")
                  \o <<Content("user", MessageText, p.hasImage)>>]

Payloads ==
    [history : Histories(MaxHistory), message : MessageShapes,
     hasImage : BOOLEAN, weather : BOOLEAN, time : BOOLEAN, web : BOOLEAN]

(* ContentsSpec: buildContents applied to every payload of Payloads *)

ContentsInit ==
    /\ call \in {[input |-> p, done |-> FALSE,
                  result |-> [plain |-> TRUE, contents |-> <<>>]] : p \in Payloads}
    /\ concurrency = DEFAULT_CONCURRENCY
    /\ QueueIdle
    /\ bodyRuns = <<>>
    /\ pc = <<>>
    /\ HandlerIdle
    /\ bk = NoBackoff

ContentsRun ==
    /\ ~call.done
    /\ call' = [call EXCEPT !.done = TRUE, !.result = buildContents(call.input)]
    /\ UNCHANGED <<queueVars, pc, handlerVars, bk>>

ContentsNext == ContentsRun

ContentsSpec == ContentsInit /\ [][ContentsNext]_vars

-----------------------------------------------------------------------------
(* countInputTokens.  The upstream ai.models.countTokens either rejects or  *)
(* resolves to a response whose totalTokens is a number or is missing.       *)

CountErrors == UpstreamErrors \cup {ErrPlain, ErrFetch}

CountRejects(e) == [ok |-> FALSE, err |-> e, defined |-> FALSE, totalTokens |-> 0]
CountResolves(defined, n) ==
    [ok |-> TRUE, err |-> NoErr, defined |-> defined, totalTokens |-> n]

CountBehaviours ==
    {CountRejects(e) : e \in CountErrors}
        \cup {CountResolves(FALSE, 0)}
        \cup {CountResolves(TRUE, n) : n \in 0..MaxTokens}

Returned(n) == [threw |-> FALSE, err |-> NoErr, value |-> n]
Threw(e) == [threw |-> TRUE, err |-> e, value |-> 0]

countInputTokensRethrowing(upstream) ==
    IF upstream.ok
    THEN Returned(IF upstream.defined THEN upstream.totalTokens ELSE 0)
    ELSE Threw(upstream.err)

\* try { res = await ai.models.countTokens(...); return res.totalTokens ?? 0 }
\* catch { return 0 }
countInputTokens(upstream) ==
    IF upstream.ok
    THEN Returned(IF upstream.defined THEN upstream.totalTokens ELSE 0)
    ELSE Returned(0)

NoCount == [calls |-> <<>>, generating |-> FALSE]

(* CountSpec: countInputTokens called on the same contents, against the same *)
(* upstream, once and once more, and the generator going on from it to       *)
(* withBackoff                                                               *)

CountInit ==
    /\ call \in {[input |-> u, done |-> FALSE, result |-> NoCount] :
                   u \in CountBehaviours}
    /\ concurrency = DEFAULT_CONCURRENCY
    /\ QueueIdle
    /\ bodyRuns = <<>>
    /\ pc = <<>>
    /\ HandlerIdle
    /\ bk = NoBackoff

\* inputTokens = await countInputTokens(ai, model, contents)
CountCalled ==
    /\ ~call.done
    /\ Len(call.result.calls) < 2
    /\ \A i \in 1..Len(call.result.calls) : ~call.result.calls[i].threw
    /\ call' = [call EXCEPT !.result.calls = Append(@, countInputTokens(call.input))]
    /\ UNCHANGED <<queueVars, pc, handlerVars, bk>>

\* the generator goes on: const stream = await withBackoff(...)
CountedThenGenerates ==
    /\ ~call.done
    /\ call.result.calls # <<>>
    /\ ~call.result.calls[Len(call.result.calls)].threw
    /\ call' = [call EXCEPT !.done = TRUE, !.result.generating = TRUE]
    /\ UNCHANGED <<queueVars, pc, handlerVars, bk>>

CountNext == CountCalled \/ CountedThenGenerates

CountSpec == CountInit /\ [][CountNext]_vars

-----------------------------------------------------------------------------

Init ==
    /\ concurrency \in ConcurrencyValues
    /\ QueueIdle
    /\ bodyRuns = [r \in Reqs |-> 0]
    /\ pc = [r \in Reqs |-> "idle"]
    /\ req = [r \in Reqs |-> NoRequest]
    /\ res = [r \in Reqs |-> NoResponse]
    /\ caught = [r \in Reqs |-> NoErr]
    /\ gen = [r \in Reqs |-> NoGen]
    /\ db = [r \in Reqs |-> NoRows]
    /\ bk = NoBackoff
    /\ call = NoCall

\* The task of request r settles (its body catches every error, so its
\* promise resolves); the queue takes the slot back and starts the head of
\* the line, whose body runs up to its first await.  pcNow is pc with r's
\* new position.
TaskSettles(r, pcNow) ==
    LET a == TryToStartAnother(waiting, PendingAfter(running, TRUE), concurrency)
    IN  /\ waiting' = a.waiting
        /\ running' = a.running
        /\ started' = started \o SeqOfSet(a.start)
        /\ bodyRuns' = [x \in Reqs |->
                          IF x \in a.start THEN bodyRuns[x] + 1 ELSE bodyRuns[x]]
        /\ pc' = [x \in Reqs |-> IF x \in a.start THEN "conv" ELSE pcNow[x]]
        /\ UNCHANGED <<concurrency, submitted>>

\* catch (err) { normalizeError; sendSSEError; if (!res.writableEnded) res.end() }
\* The task is over: its request and its generator are released.
Catch(r, err) ==
    /\ caught' = [caught EXCEPT ![r] = err]
    /\ req' = [req EXCEPT ![r] = NoRequest]
    /\ gen' = [gen EXCEPT ![r] = NoGen]
    /\ res' = [res EXCEPT ![r] =
                 EndIfNotEnded(sendSSEError(res[r], normalizeError(err)))]
    /\ TaskSettles(r, [pc EXCEPT ![r] = "closed"])
    /\ UNCHANGED db

\* The turn of the event loop that ends a response also drops the last
\* references to it.  The turn is cut in two so that the ended response is a
\* state of its own: pc "closed" with all that was written and persisted,
\* then "released" with only the fact that it was ended: the rows of a
\* released request are no longer followed.  No other continuation runs
\* between the two.
TurnOver == \A x \in Reqs : pc[x] # "closed"

\* The continuation of request r at position p is run.
At(r, p) == TurnOver /\ pc[r] = p

\* Requests are numbered in the order they enter the handler.
IsNextArrival(r) ==
    /\ At(r, "idle")
    /\ \A x \in Reqs : x < r => pc[x] # "idle"

\* protect answers the request: it does not call next().
ProtectRejects(r, cred) ==
    /\ IsNextArrival(r)
    /\ ~protect(res[r], cred).next
    /\ req' = [req EXCEPT ![r].cred = cred]
    /\ res' = [res EXCEPT ![r] = protect(res[r], cred).res]
    /\ pc' = [pc EXCEPT ![r] = "closed"]
    /\ UNCHANGED <<queueVars, caught, gen, db, fnVars>>

\* protect calls next() and checkDepartmentAccess answers the request.
AccessRejects(r, cred, a) ==
    /\ IsNextArrival(r)
    /\ protect(res[r], cred).next
    /\ ~checkDepartmentAccess(protect(res[r], cred).res, a).next
    /\ req' = [req EXCEPT ![r].cred = cred]
    /\ res' = [res EXCEPT ![r] =
                 checkDepartmentAccess(protect(res[r], cred).res, a).res]
    /\ pc' = [pc EXCEPT ![r] = "closed"]
    /\ UNCHANGED <<queueVars, caught, gen, db, fnVars>>

\* The middlewares pass and the handler is entered with a body that has no
\* message and no image.
RejectBadRequest(r) ==
    /\ IsNextArrival(r)
    /\ res' = [res EXCEPT ![r] = sendJsonError(res[r], "BAD_REQUEST", 400)]
    /\ pc' = [pc EXCEPT ![r] = "closed"]
    /\ UNCHANGED <<queueVars, req, caught, gen, db, fnVars>>

PersistLost(rows, role, text) == rows

\* Message.create({conversationId, role, text}) has stored the message
Persist(rows, role, text) ==
    [rows EXCEPT !.messages = Append(@, Message(role, text))]

\* withQueue(async () => {...}): the task of r is put in line and the head of
\* the line is started at once when a slot is free; a started body runs up
\* to its first await.
Enqueue(r) ==
    /\ LET a == TryToStartAnother(Append(waiting, r), running, concurrency)
       IN  /\ waiting' = a.waiting
           /\ running' = a.running
           /\ started' = started \o SeqOfSet(a.start)
           /\ bodyRuns' = [x \in Reqs |->
                             IF x \in a.start THEN bodyRuns[x] + 1 ELSE bodyRuns[x]]
           /\ pc' = [x \in Reqs |->
                       IF x \in a.start THEN "conv"
                       ELSE IF x = r THEN "queued" ELSE pc[x]]
    /\ submitted' = Append(submitted, r)
    /\ UNCHANGED concurrency

\* protect and checkDepartmentAccess have both called next()
MiddlewaresPass(response, cred) ==
    /\ protect(response, cred).next
    /\ \E a \in AccessCases :
           checkDepartmentAccess(protect(response, cred).res, a).next

ArrivePersistingFirst(r, cred, hasConv) ==
    /\ IsNextArrival(r)
    /\ MiddlewaresPass(res[r], cred)
    /\ req' = [req EXCEPT ![r] = [hasConv |-> hasConv, cred |-> cred]]
    /\ res' = [res EXCEPT ![r] = flushHeaders(res[r])]
    /\ db' = [db EXCEPT ![r] = Persist(db[r], "user", UserText)]
    /\ Enqueue(r)
    /\ UNCHANGED <<caught, gen, fnVars>>

\* The middlewares pass and the handler is entered with a message or an
\* image: the SSE headers are flushed and the task is handed to withQueue,
\* which starts it at once when a slot is free.  Which of the two the body
\* holds is not looked at before the generator reads the message
\* (ContextReady).
Arrive(r, cred, hasConv) ==
    /\ IsNextArrival(r)
    /\ MiddlewaresPass(res[r], cred)
    /\ req' = [req EXCEPT ![r] = [hasConv |-> hasConv, cred |-> cred]]
    /\ res' = [res EXCEPT ![r] = flushHeaders(res[r])]
    /\ Enqueue(r)
    /\ UNCHANGED <<caught, gen, db, fnVars>>

\* await Conversation.findOne(...) returns the conversation of the request,
\* or await Conversation.create(...) returns a new one
ConversationReady(r) ==
    /\ At(r, "conv")
    /\ db' = [db EXCEPT ![r].conversation = ~req[r].hasConv]
    /\ pc' = [pc EXCEPT ![r] = "find"]
    /\ UNCHANGED <<queueVars, req, res, caught, gen, fnVars>>

\* await Conversation.findOne(...) returns null
ConversationNotFound(r) ==
    /\ At(r, "conv")
    /\ req[r].hasConv
    /\ res' = [res EXCEPT ![r] =
                 EndIfNotEnded(sendSSEError(res[r], "BAD_REQUEST"))]
    /\ req' = [req EXCEPT ![r] = NoRequest]
    /\ gen' = [gen EXCEPT ![r] = NoGen]
    /\ TaskSettles(r, [pc EXCEPT ![r] = "closed"])
    /\ UNCHANGED <<caught, db, fnVars>>

\* await Message.find(...).sort(...).limit(40).lean() returns
HistoryRead(r) ==
    /\ At(r, "find")
    /\ pc' = [pc EXCEPT ![r] = "count"]
    /\ UNCHANGED <<queueVars, handlerVars, fnVars>>

\* await Message.countDocuments(...) returns
Counted(r) ==
    /\ At(r, "count")
    /\ pc' = [pc EXCEPT ![r] = "saveUser"]
    /\ UNCHANGED <<queueVars, handlerVars, fnVars>>

\* The code from the end of the persistence awaits to the generator's first
\* await: the `conversation` frame of a new conversation, the payload, and
\* streamGenerateContent up to `await maybeGetWebResults`.
BeginGeneration(r) ==
    /\ res' = [res EXCEPT ![r] =
                 IF req[r].hasConv THEN res[r]
                 ELSE write(res[r], ConversationFrame)]
    /\ pc' = [pc EXCEPT ![r] = "context"]
    /\ UNCHANGED <<queueVars, req, caught, gen, fnVars>>

\* await Message.create({role: 'user'}) returns and countBefore is not 0
UserTurnSaved(r) ==
    /\ At(r, "saveUser")
    /\ req[r].hasConv
    /\ db' = [db EXCEPT ![r] = Persist(db[r], "user", UserText)]
    /\ BeginGeneration(r)

\* await Message.create({role: 'user'}) returns and countBefore is 0: the
\* title is written next
UserTurnSavedFirst(r) ==
    /\ At(r, "saveUser")
    /\ db' = [db EXCEPT ![r] = Persist(db[r], "user", UserText)]
    /\ pc' = [pc EXCEPT ![r] = "title"]
    /\ UNCHANGED <<queueVars, req, res, caught, gen, fnVars>>

\* await Conversation.findByIdAndUpdate(... title ...) returns
TitleSaved(r) ==
    /\ At(r, "title")
    /\ BeginGeneration(r)
    /\ UNCHANGED db

\* What the database call awaited at position p throws; the error of a
\* Message.create carries the role of the message it was to write.
DatabaseError(p) ==
    IF p = "saveUser" THEN ErrMessageCreate("user")
    ELSE IF p = "saveModel" THEN ErrMessageCreate("model")
    ELSE ErrPlain

\* A failed user-turn write is passed over and generation begins.
DatabaseThrowsUserTurnPassedOver(r) ==
    \/ /\ At(r, "saveUser")
       /\ BeginGeneration(r)
       /\ UNCHANGED db
    \/ /\ TurnOver
       /\ pc[r] \in {"conv", "find", "count", "title", "saveModel"}
       /\ Catch(r, DatabaseError(pc[r]))
       /\ UNCHANGED fnVars

\* One of the awaited database calls throws.
DatabaseThrows(r) ==
    /\ TurnOver
    /\ pc[r] \in {"conv", "find", "count", "saveUser", "title", "saveModel"}
    /\ Catch(r, DatabaseError(pc[r]))
    /\ UNCHANGED fnVars

\* maybeGetWebResults and buildContents (its await of getWeatherContext)
\* return; the generator yields `meta` when there are web results and the
\* relay loop writes it.  The generator goes on to countInputTokens and
\* withBackoff.  kind is what the body holds: a message ("text") or an image
\* with an empty message ("image").
ContextReady(r, kind) ==
    /\ At(r, "context")
    /\ LET web == maybeGetWebResults(kind)
           breaks == MetaEvents(web) # <<>> /\ RelayBreaks(res[r])
       IN  /\ gen' = [gen EXCEPT ![r].web = web,
                                 ![r].yielded = @ \o MetaEvents(web)]
           /\ res' = [res EXCEPT ![r] =
                        IF breaks THEN @ ELSE WriteAll(@, MetaEvents(web))]
           /\ pc' = [pc EXCEPT ![r] = IF breaks THEN "saveModel" ELSE "open"]
    /\ UNCHANGED <<queueVars, req, caught, db, fnVars>>

\* What the generator throws before its first yield: the error of getApiKey
\* (no key configured), or the rejection of a fetch (or of res.json()) in
\* geocodeLocation or fetchWeather, which getWeatherContext and buildContents
\* pass on.
ContextErrors == {ErrPlain, ErrFetch}

\* getApiKey throws or the await of getWeatherContext in buildContents
\* throws: the generator throws before it yields anything.
ContextThrows(r, err) ==
    /\ At(r, "context")
    /\ Catch(r, err)
    /\ UNCHANGED fnVars

\* await withBackoff(() => generateContentStream(...)) against a scripted
\* upstream: it returns the stream.
StreamOpens(r, script) ==
    /\ At(r, "open")
    /\ withBackoff(script, 0, NoLog).status = "returned"
    /\ pc' = [pc EXCEPT ![r] = "stream"]
    /\ UNCHANGED <<queueVars, handlerVars, fnVars>>

\* ... or it throws the upstream's error.
StreamOpenThrows(r, script) ==
    /\ At(r, "open")
    /\ withBackoff(script, 0, NoLog).status = "thrown"
    /\ Catch(r, withBackoff(script, 0, NoLog).err)
    /\ UNCHANGED fnVars

\* The upstream stream delivers a chunk with text: the generator yields a
\* token and the relay loop accumulates and writes it, or breaks.  (A chunk
\* without text is not yielded and changes nothing here.)
TokenRelayed(r) ==
    /\ At(r, "stream")
    /\ gen[r].tokens < MaxChunks
    /\ LET i == gen[r].tokens + 1
           breaks == RelayBreaks(res[r])
       IN  /\ gen' = [gen EXCEPT ![r].tokens = i,
                                 ![r].yielded = Append(@, TokenFrame(i)),
                                 ![r].acc = IF breaks THEN @
                                            ELSE Accumulate(@, TokenFrame(i))]
           /\ res' = [res EXCEPT ![r] = Relay(res[r], TokenFrame(i))]
           /\ pc' = [pc EXCEPT ![r] = IF breaks THEN "saveModel" ELSE "stream"]
    /\ UNCHANGED <<queueVars, req, caught, db, fnVars>>

\* The upstream stream ends: the generator counts the output tokens, logs the
\* usage and yields `done`, the relay loop writes it, and the handler awaits
\* Message.create({role: 'model'}).
StreamEnds(r) ==
    /\ At(r, "stream")
    /\ gen' = [gen EXCEPT ![r].yielded = Append(@, DoneFrame),
                          ![r].acc = IF RelayBreaks(res[r]) THEN @
                                     ELSE Accumulate(@, DoneFrame)]
    /\ res' = [res EXCEPT ![r] = Relay(res[r], DoneFrame)]
    /\ pc' = [pc EXCEPT ![r] = "saveModel"]
    /\ UNCHANGED <<queueVars, req, caught, db, fnVars>>

\* The upstream stream throws while it is read.
StreamThrows(r, err) ==
    /\ At(r, "stream")
    /\ Catch(r, err)
    /\ UNCHANGED fnVars

\* await Message.create({role: 'model'}) returns;
\* if (!res.writableEnded) res.end()
ModelTurnSaved(r) ==
    /\ At(r, "saveModel")
    /\ db' = [db EXCEPT ![r] = Persist(db[r], "model", PersistedText(gen[r].acc))]
    /\ res' = [res EXCEPT ![r] = EndIfNotEnded(res[r])]
    /\ req' = [req EXCEPT ![r] = NoRequest]
    /\ gen' = [gen EXCEPT ![r] = NoGen]
    /\ TaskSettles(r, [pc EXCEPT ![r] = "closed"])
    /\ UNCHANGED <<caught, fnVars>>

Step(r) ==
    \/ ConversationReady(r)
    \/ ConversationNotFound(r)
    \/ HistoryRead(r)
    \/ Counted(r)
    \/ UserTurnSaved(r)
    \/ UserTurnSavedFirst(r)
    \/ TitleSaved(r)
    \/ DatabaseThrows(r)
    \/ \E kind \in {"text", "image"} : ContextReady(r, kind)
    \/ \E err \in ContextErrors : ContextThrows(r, err)
    \/ \E script \in MainScripts : StreamOpens(r, script)
    \/ \E script \in MainScripts : StreamOpenThrows(r, script)
    \/ TokenRelayed(r)
    \/ StreamEnds(r)
    \/ \E err \in StreamErrors : StreamThrows(r, err)
    \/ ModelTurnSaved(r)

\* What request r may present when it comes in: one of S when it is the
\* next to come in, nothing otherwise.
Presenting(r, S) == IF IsNextArrival(r) THEN S ELSE {}

Enter(r) ==
    \/ \E cred \in Presenting(r, Credentials) : ProtectRejects(r, cred)
    \/ \E cred \in Presenting(r, Credentials), a \in AccessCases :
           AccessRejects(r, cred, a)
    \/ RejectBadRequest(r)
    \/ \E cred \in Presenting(r, Credentials), hasConv \in BOOLEAN :
           Arrive(r, cred, hasConv)

\* The second half of the turn that ended the response of r.
ReleasedResponse(response) ==
    [NoResponse EXCEPT !.headersSent = response.headersSent,
                       !.ended = response.ended]

Release(r) ==
    /\ pc[r] = "closed"
    /\ pc' = [pc EXCEPT ![r] = "released"]
    /\ res' = [res EXCEPT ![r] = ReleasedResponse(res[r])]
    /\ caught' = [caught EXCEPT ![r] = NoErr]
    /\ db' = [db EXCEPT ![r] = NoRows]
    /\ req' = [req EXCEPT ![r] = NoRequest]
    /\ UNCHANGED <<queueVars, gen, fnVars>>

Progress == \E r \in Reqs : Release(r) \/ Step(r)

Next == \E r \in Reqs : Release(r) \/ Step(r) \/ Enter(r)

Spec == Init /\ [][Next]_vars

\* Every awaited call eventually returns or throws, and the event loop runs
\* a continuation while one is ready.
FairSpec == Spec /\ WF_vars(Progress)

(* DisconnectSpec: Spec with clients that close the connection *)

MaxClosers == 1

InFlight(r) ==
    pc[r] \in {"queued", "conv", "find", "count", "saveUser", "title",
               "context", "open", "stream", "saveModel"}

\* The client of r closes the connection while its SSE response is open.
\* The handler listens to no 'close' event: only the response changes.
ClientCloses(r) ==
    /\ TurnOver
    /\ r > NumReq - MaxClosers
    /\ InFlight(r)
    /\ ~res[r].destroyed
    /\ res' = [res EXCEPT ![r].destroyed = TRUE]
    /\ UNCHANGED <<queueVars, pc, req, caught, gen, db, fnVars>>

DisconnectNext ==
    \/ Next
    \/ \E r \in Reqs : ClientCloses(r)

DisconnectSpec == Init /\ [][DisconnectNext]_vars

-----------------------------------------------------------------------------
(* ConvSpec: the conversations and messages of the database, shared by the  *)
(* chat requests and by a DELETE /api/conversations/:id.  Here db is the    *)
(* database, req[r] what request r presents, gen[r] the locals of its task. *)
(* A conversation made by request r has the id r; one more conversation,     *)
(* OldConversation, was made before by a request of user "u1" whose user     *)
(* turn was not stored, so it holds no message yet.  The relay of a request  *)
(* touches nothing of the database and is part of the step that begins it.   *)
(* A generation that throws leaves the database as a failed write of the    *)
(* model turn does; the frames of failed generations are those of Spec.      *)
(* The locals of a task are dropped when it settles.                         *)

Users == {"u1", "u2"}

\* req.user.departmentId
DeptOf(user) == IF user = "u1" THEN "A" ELSE "B"

NoConversationId == 0
OldConversation == NumReq + 1
ConvIds == 1..(NumReq + 1)

NoConversation == [exists |-> FALSE, userId |-> "", departmentId |-> "", title |-> <<>>]

\* title: 'New Conversation'
DefaultTitle == <<0>>

\* the title made of the message of request r
TitleOf(r) == <<r>>

StoredMessage(conversationId, role, by) ==
    [conversationId |-> conversationId, role |-> role, by |-> by]

\* the messages of a conversation, oldest first
MessagesOf(c) ==
    SelectSeq(db.messages, LAMBDA m : m.conversationId = c)

\* .sort({ createdAt: 1 }).limit(n) of messages already oldest first
Limit(messages, n) ==
    SubSeq(messages, 1, IF Len(messages) < n THEN Len(messages) ELSE n)

\* Message.find({ conversationId }).sort({ createdAt: 1 }).limit(40) on the
\* stored messages, which are kept in the order of their createdAt
FindHistory(messages, c) ==
    Limit(SelectSeq(messages, LAMBDA m : m.conversationId = c), HISTORY_LIMIT)

NoDelete == [pc |-> "idle", user |-> "", conv |-> NoConversationId]

NoLocals == [conv |-> NoConversationId, history |-> <<>>, countBefore |-> 0]

ConversationFrameOf(c) == Frame("conversation", <<c>>, "")

Body(user, departmentId, conversationId) ==
    [user |-> user, departmentId |-> departmentId, conversationId |-> conversationId]

\* What a request presents: the user of its token, and the departmentId and
\* conversationId of its body.  "u1" asks for a new conversation or for the
\* old one in the own department, and for another department; "u2" asks for
\* the old conversation of "u1", in the own department and in that of "u1".
ChatBodies ==
    {Body("u1", "A", NoConversationId), Body("u1", "A", OldConversation),
     Body("u1", "B", NoConversationId),
     Body("u2", "B", OldConversation), Body("u2", "A", OldConversation)}

\* What checkDepartmentAccess sees of a request; when the department stores
\* an accessCode (coded), the body carries that code.
AccessOf(body, coded) ==
    [user |-> TRUE, userDept |-> DeptOf(body.user), departmentId |-> body.departmentId,
     lookup |-> "found",
     stored |-> IF coded THEN Str(Code1111) ELSE Null,
     accessCode |-> IF coded THEN Str(Code1111) ELSE Undefined]

MatchesAnyOwner(conversation, userId, departmentId) == conversation.exists

\* Conversation.findOne({ _id, userId, departmentId: deptId })
Matches(conversation, userId, departmentId) ==
    /\ conversation.exists
    /\ conversation.userId = userId
    /\ conversation.departmentId = departmentId

ConvInit ==
    /\ concurrency \in ConcurrencyValues
    /\ QueueIdle
    /\ bodyRuns = [r \in Reqs |-> 0]
    /\ pc = [r \in Reqs |-> "idle"]
    /\ req = [r \in Reqs |-> Body("", "", NoConversationId)]
    /\ res = [r \in Reqs |-> NoResponse]
    /\ caught = [r \in Reqs |-> NoErr]
    /\ gen = [r \in Reqs |-> NoLocals]
    /\ db = [conversations |->
                  [c \in ConvIds |->
                      IF c = OldConversation
                      THEN [exists |-> TRUE, userId |-> "u1",
                            departmentId |-> "A", title |-> DefaultTitle]
                      ELSE NoConversation],
              messages |-> <<>>,
              delete |-> NoDelete]
    /\ bk = NoBackoff
    /\ call = NoCall

\* checkDepartmentAccess answers the request.
CAccessRejects(r, body, coded) ==
    /\ IsNextArrival(r)
    /\ ~checkDepartmentAccess(res[r], AccessOf(body, coded)).next
    /\ req' = [req EXCEPT ![r] = body]
    /\ res' = [res EXCEPT ![r] =
                 checkDepartmentAccess(res[r], AccessOf(body, coded)).res]
    /\ pc' = [pc EXCEPT ![r] = "rejected"]
    /\ UNCHANGED <<queueVars, caught, gen, db, fnVars>>

\* The middlewares pass; the handler flushes the SSE headers and calls
\* withQueue.
CArrive(r, body, coded) ==
    /\ IsNextArrival(r)
    /\ checkDepartmentAccess(res[r], AccessOf(body, coded)).next
    /\ req' = [req EXCEPT ![r] = body]
    /\ res' = [res EXCEPT ![r] = flushHeaders(res[r])]
    /\ Enqueue(r)
    /\ UNCHANGED <<caught, gen, db, fnVars>>

\* await Conversation.findOne(...) returns the conversation
CFound(r) ==
    /\ At(r, "conv")
    /\ req[r].conversationId # NoConversationId
    /\ Matches(db.conversations[req[r].conversationId], req[r].user,
               req[r].departmentId)
    /\ gen' = [gen EXCEPT ![r].conv = req[r].conversationId]
    /\ pc' = [pc EXCEPT ![r] = "find"]
    /\ UNCHANGED <<queueVars, req, res, caught, db, fnVars>>

\* await Conversation.findOne(...) returns null
CNotFound(r) ==
    /\ At(r, "conv")
    /\ req[r].conversationId # NoConversationId
    /\ ~Matches(db.conversations[req[r].conversationId], req[r].user,
                req[r].departmentId)
    /\ res' = [res EXCEPT ![r] =
                 EndIfNotEnded(sendSSEError(res[r], "BAD_REQUEST"))]
    /\ gen' = [gen EXCEPT ![r] = NoLocals]
    /\ TaskSettles(r, [pc EXCEPT ![r] = "done"])
    /\ UNCHANGED <<req, caught, db, fnVars>>

\* await Conversation.create({ userId, departmentId: deptId, title }) returns
CCreated(r) ==
    /\ At(r, "conv")
    /\ req[r].conversationId = NoConversationId
    /\ db' = [db EXCEPT !.conversations[r] =
                 [exists |-> TRUE, userId |-> req[r].user,
                  departmentId |-> req[r].departmentId, title |-> DefaultTitle]]
    /\ gen' = [gen EXCEPT ![r].conv = r]
    /\ pc' = [pc EXCEPT ![r] = "find"]
    /\ UNCHANGED <<queueVars, req, res, caught, fnVars>>

\* await Message.find({ conversationId }).sort({ createdAt: 1 }).limit(40)
CHistoryRead(r) ==
    /\ At(r, "find")
    /\ gen' = [gen EXCEPT ![r].history =
                 FindHistory(db.messages, gen[r].conv)]
    /\ pc' = [pc EXCEPT ![r] = "count"]
    /\ UNCHANGED <<queueVars, req, res, caught, db, fnVars>>

\* await Message.countDocuments({ conversationId })
CCounted(r) ==
    /\ At(r, "count")
    /\ gen' = [gen EXCEPT ![r].countBefore = Len(MessagesOf(gen[r].conv))]
    /\ pc' = [pc EXCEPT ![r] = "saveUser"]
    /\ UNCHANGED <<queueVars, req, res, caught, db, fnVars>>

\* what the relay loop writes, from the generator's first event to `done`
Relayed == <<MetaFrame, TokenFrame(1), DoneFrame>>

CBeginGenerationFrameToAll(r) ==
    /\ res' = [res EXCEPT ![r] =
                 WriteAll(write(res[r], ConversationFrameOf(gen[r].conv)), Relayed)]
    /\ pc' = [pc EXCEPT ![r] = "saveModel"]
    /\ UNCHANGED <<queueVars, req, caught, gen, fnVars>>

\* if (!conversationId) res.write(conversation frame); the relay loop, up to
\* the await of the model turn's Message.create
CBeginGeneration(r) ==
    /\ res' = [res EXCEPT ![r] =
                 WriteAll(IF req[r].conversationId # NoConversationId THEN res[r]
                          ELSE write(res[r], ConversationFrameOf(gen[r].conv)),
                          Relayed)]
    /\ pc' = [pc EXCEPT ![r] = "saveModel"]
    /\ UNCHANGED <<queueVars, req, caught, gen, fnVars>>

\* await Message.create({ conversationId, role: 'user' }) returns
CUserTurnSaved(r) ==
    /\ At(r, "saveUser")
    /\ db' = [db EXCEPT !.messages = Append(@, StoredMessage(gen[r].conv, "user", r))]
    /\ IF gen[r].countBefore = 0
       THEN /\ pc' = [pc EXCEPT ![r] = "title"]
            /\ UNCHANGED <<queueVars, req, res, caught, gen, fnVars>>
       ELSE CBeginGeneration(r)

\* await Conversation.findByIdAndUpdate(conversationIdToUse, { $set: { title } })
CTitleSaved(r) ==
    /\ At(r, "title")
    /\ db' = [db EXCEPT !.conversations[gen[r].conv].title =
                 IF db.conversations[gen[r].conv].exists THEN TitleOf(r) ELSE @]
    /\ CBeginGeneration(r)

\* await Message.create({ conversationId, role: 'model' }) returns; res.end()
CModelTurnSaved(r) ==
    /\ At(r, "saveModel")
    /\ db' = [db EXCEPT !.messages = Append(@, StoredMessage(gen[r].conv, "model", r))]
    /\ res' = [res EXCEPT ![r] = EndIfNotEnded(res[r])]
    /\ gen' = [gen EXCEPT ![r] = NoLocals]
    /\ TaskSettles(r, [pc EXCEPT ![r] = "done"])
    /\ UNCHANGED <<req, caught, fnVars>>

\* One of the awaited database calls of the task throws.
CDatabaseThrows(r) ==
    /\ pc[r] \in {"conv", "find", "count", "saveUser", "title", "saveModel"}
    /\ caught' = [caught EXCEPT ![r] = DatabaseError(pc[r])]
    /\ res' = [res EXCEPT ![r] =
                 EndIfNotEnded(sendSSEError(res[r], normalizeError(DatabaseError(pc[r]))))]
    /\ gen' = [gen EXCEPT ![r] = NoLocals]
    /\ TaskSettles(r, [pc EXCEPT ![r] = "done"])
    /\ UNCHANGED <<req, db, fnVars>>

\* DELETE /api/conversations/:id by a user: await Conversation.findOne({ _id,
\* userId }) returns the conversation, or null (404)
DeleteFinds(user, c) ==
    /\ db.delete.pc = "idle"
    /\ db' = [db EXCEPT !.delete =
                 [pc |-> IF db.conversations[c].exists
                            /\ db.conversations[c].userId = user
                         THEN "deleteMany" ELSE "notFound",
                  user |-> user, conv |-> c]]
    /\ UNCHANGED <<queueVars, pc, req, res, caught, gen, fnVars>>

\* await Message.deleteMany({ conversationId: conv._id })
DeleteMessages ==
    /\ db.delete.pc = "deleteMany"
    /\ db' = [db EXCEPT !.messages =
                            SelectSeq(@, LAMBDA m : m.conversationId # db.delete.conv),
                        !.delete.pc = "deleteConversation"]
    /\ UNCHANGED <<queueVars, pc, req, res, caught, gen, fnVars>>

\* await Conversation.findByIdAndDelete(conv._id); res.status(204).end()
DeleteConversation ==
    /\ db.delete.pc = "deleteConversation"
    /\ db' = [db EXCEPT !.conversations[db.delete.conv].exists = FALSE,
                        !.delete.pc = "deleted"]
    /\ UNCHANGED <<queueVars, pc, req, res, caught, gen, fnVars>>

CEnter(r) ==
    \/ \E body \in Presenting(r, ChatBodies), coded \in BOOLEAN :
           CAccessRejects(r, body, coded)
    \/ \E body \in Presenting(r, ChatBodies), coded \in BOOLEAN :
           CArrive(r, body, coded)

CStep(r) ==
    \/ CFound(r)
    \/ CNotFound(r)
    \/ CCreated(r)
    \/ CHistoryRead(r)
    \/ CCounted(r)
    \/ CUserTurnSaved(r)
    \/ CTitleSaved(r)
    \/ CModelTurnSaved(r)
    \/ CDatabaseThrows(r)

ConvNext ==
    \/ \E r \in Reqs : CEnter(r) \/ CStep(r)
    \/ \E user \in Users : DeleteFinds(user, OldConversation)
    \/ DeleteMessages
    \/ DeleteConversation

ConvSpec == ConvInit /\ [][ConvNext]_vars

-----------------------------------------------------------------------------
(* HistorySpec: the history a task reads for its request, as a function of  *)
(* the messages stored before the request.  call.input is [prior, others]:   *)
(* the conversation holds `prior` messages, user and model in turn, and      *)
(* another conversation of the database `others` messages stored after them. *)

MaxPrior == 42
MaxOthers == 2

OtherConversation == 1

\* the i-th message of the conversation: the turns of the k-th earlier
\* request are its messages 2k - 1 and 2k
PriorMessage(i) ==
    StoredMessage(OldConversation, IF i % 2 = 1 THEN "user" ELSE "model",
                  (i + 1) \div 2)

PriorMessages(n) == [i \in 1..n |-> PriorMessage(i)]

StoredBefore(input) ==
    PriorMessages(input.prior)
        \o [i \in 1..input.others |-> StoredMessage(OtherConversation, "user", 0)]

HistoryInit ==
    /\ call \in {[input |-> [prior |-> n, others |-> k], done |-> FALSE,
                   result |-> <<>>] : n \in 0..MaxPrior, k \in 0..MaxOthers}
    /\ concurrency = DEFAULT_CONCURRENCY
    /\ QueueIdle
    /\ bodyRuns = <<>>
    /\ pc = <<>>
    /\ HandlerIdle
    /\ bk = NoBackoff

\* const recentMessages = await Message.find(...); history = recentMessages.map(...)
HistoryFound ==
    /\ ~call.done
    /\ call' = [call EXCEPT !.done = TRUE,
                            !.result = FindHistory(StoredBefore(call.input),
                                                   OldConversation)]
    /\ UNCHANGED <<queueVars, pc, handlerVars, bk>>

HistoryNext == HistoryFound

HistorySpec == HistoryInit /\ [][HistoryNext]_vars

-----------------------------------------------------------------------------
(* StreamSpec: the frames of one response that streams to its end, with the *)
(* payload of each frame, and the contents handed to the provider.           *)
(* call.input is what the request and the services it calls bring:           *)
(*   hasConversationId  the body carries a conversationId                    *)
(*   message            "weather": "what's the weather in Paris?", "plain":  *)
(*                      another text, "image": no text beside an image       *)
(*   geocoded           the geocoding service finds the place of the message *)
(*   outcome            the outcome of the web search made for the message   *)
(*   texts              the number of chunks with text the provider streams  *)

MaxTexts == 2

StreamMessages == {"weather", "plain", "image"}

\* message.trim() of a body that holds only an image
IsBlank(message) == message = "image"

\* { type: 'conversation', conversationId, title }
ConversationEvent == [type |-> "conversation", conversationId |-> "id", title |-> "title"]

MetaEventWithLocation(web) ==
    [type |-> "meta", webResults |-> web.results, lastUpdated |-> "now",
     location |-> "Paris"]

\* { type: 'meta', webResults: web.results, lastUpdated: web.lastUpdated }
MetaEvent(web) ==
    [type |-> "meta", webResults |-> web.results, lastUpdated |-> "now"]

\* { type: 'token', text }
TokenEvent(i) == [type |-> "token", text |-> i]

\* { type: 'done', usage: { inputTokens, outputTokens } }
DoneEvent == [type |-> "done", usage |-> "usage"]

\* getWeatherContext(message): `Location: ${data.location}` and the weather
\* of the place, or null
WeatherContext(input) ==
    IF input.message = "weather" /\ input.geocoded
    THEN <<"Location: Paris">> ELSE <<>>

\* web && web.results.length > 0 ? `Web search results for: ...` : undefined
WebContext(web) ==
    IF ~web.null /\ web.results # <<>> THEN <<"Web search results">> ELSE <<>>

WebOf(input) == resolveWebContext(IsBlank(input.message), <<input.outcome>>)

StreamInputs ==
    [hasConversationId : BOOLEAN, message : StreamMessages, geocoded : BOOLEAN,
     outcome : SearchOutcomes, texts : 0..MaxTexts]

StreamInit ==
    /\ call \in {[input |-> i, at |-> "saved", frames |-> <<>>, contents |-> <<>>] :
                   i \in StreamInputs}
    /\ concurrency = DEFAULT_CONCURRENCY
    /\ QueueIdle
    /\ bodyRuns = <<>>
    /\ pc = <<>>
    /\ HandlerIdle
    /\ bk = NoBackoff

\* if (!conversationId) res.write(conversation frame)
StreamBegins ==
    /\ call.at = "saved"
    /\ call' = [call EXCEPT
                   !.at = "context",
                   !.frames = IF call.input.hasConversationId THEN <<>>
                              ELSE <<ConversationEvent>>]
    /\ UNCHANGED <<queueVars, pc, handlerVars, bk>>

\* maybeGetWebResults, buildContents; if (web) yield meta, relayed by res.write
StreamContext ==
    /\ call.at = "context"
    /\ call' = [call EXCEPT
                   !.at = "stream",
                   !.contents = WeatherContext(call.input)
                                    \o WebContext(WebOf(call.input))
                                    \o <<call.input.message>>,
                   !.frames = IF WebOf(call.input).null THEN @
                              ELSE Append(@, MetaEvent(WebOf(call.input)))]
    /\ UNCHANGED <<queueVars, pc, handlerVars, bk>>

TokensIn(frames) == SelectSeq(frames, LAMBDA f : f.type = "token")

\* if (text) yield { type: 'token', text }, relayed by res.write
StreamToken ==
    /\ call.at = "stream"
    /\ Len(TokensIn(call.frames)) < call.input.texts
    /\ call' = [call EXCEPT
                   !.frames = Append(@, TokenEvent(Len(TokensIn(call.frames)) + 1))]
    /\ UNCHANGED <<queueVars, pc, handlerVars, bk>>

\* yield { type: 'done', usage }, relayed by res.write; res.end()
StreamDone ==
    /\ call.at = "stream"
    /\ Len(TokensIn(call.frames)) = call.input.texts
    /\ call' = [call EXCEPT !.at = "ended", !.frames = Append(@, DoneEvent)]
    /\ UNCHANGED <<queueVars, pc, handlerVars, bk>>

StreamNext == StreamBegins \/ StreamContext \/ StreamToken \/ StreamDone

StreamSpec == StreamInit /\ [][StreamNext]_vars

-----------------------------------------------------------------------------
(* Claims about withBackoff, under BackoffSpec *)

Ran == bk.result.status # "none"

RateLimited(i) ==
    /\ ~CallFn(bk.script, i).ok
    /\ isRateLimitError(CallFn(bk.script, i).err)

FailsThenSucceeds(k) ==
    /\ \A i \in 1..k : RateLimited(i)
    /\ CallFn(bk.script, k + 1).ok

RECURSIVE SumSeq(_)
SumSeq(s) == IF s = <<>> THEN 0 ELSE Head(s) + SumSeq(Tail(s))

\* C7: when the upstream call fails with a rate-limit error k times and then
\* succeeds, k in 0..4, withBackoff makes exactly k+1 calls, returns the value
\* of the successful call, and waits 1000, 2000, 4000, 8000 ms before the
\* retries 1..k (15000 ms in all for k = 4).
C7_RetriesThenSucceeds ==
    Ran => \A k \in 0..4 :
        FailsThenSucceeds(k) =>
            /\ bk.result.status = "returned"
            /\ bk.result.calls = k + 1
            /\ bk.result.value = k + 1
            /\ bk.result.delays = SubSeq(<<1000, 2000, 4000, 8000>>, 1, k)
            /\ (k = 4 => SumSeq(bk.result.delays) = 15000)

C7_Witness ==
    /\ Ran
    /\ FailsThenSucceeds(4)
    /\ bk.result.status = "returned"
    /\ bk.result.calls = 5

\* C8: when the upstream call fails with a rate-limit error at every call,
\* withBackoff makes exactly 5 calls (1 initial + 4 retries) and throws the
\* rate-limit error of the last call; no run of withBackoff makes a 6th call.
C8_ExhaustedAfterFiveCalls ==
    Ran =>
        /\ bk.result.calls <= 5
        /\ (\A i \in 1..5 : RateLimited(i)) =>
              /\ bk.result.status = "thrown"
              /\ bk.result.calls = 5
              /\ bk.result.err = CallFn(bk.script, 5).err
              /\ isRateLimitError(bk.result.err)

C8_Witness ==
    /\ Ran
    /\ \A i \in 1..6 : RateLimited(i)
    /\ bk.result.status = "thrown"
    /\ bk.result.calls = 5

\* C9: when a call fails with an error that is not a rate-limit error, at
\* whatever attempt (after j-1 rate-limited calls), withBackoff throws that
\* error at once: the failing call is its last, no delay follows it and no
\* retry is made.
C9_OtherErrorsNotRetried ==
    Ran => \A j \in 1..(MAX_RETRIES + 1) :
        (/\ \A i \in 1..(j - 1) : RateLimited(i)
         /\ ~CallFn(bk.script, j).ok
         /\ ~isRateLimitError(CallFn(bk.script, j).err)) =>
            /\ bk.result.status = "thrown"
            /\ bk.result.err = CallFn(bk.script, j).err
            /\ bk.result.calls = j
            /\ Len(bk.result.delays) = j - 1

C9_Witness ==
    /\ Ran
    /\ RateLimited(1)
    /\ CallFn(bk.script, 2) = Fail(ErrHttp500Quota)
    /\ bk.result.status = "thrown"
    /\ bk.result.err = ErrHttp500Quota
    /\ bk.result.calls = 2

-----------------------------------------------------------------------------
(* Claims about withQueue, under QueueSpec *)

Executing == {t \in DOMAIN pc : pc[t] = "running"}
Settled == {t \in DOMAIN pc : pc[t] \in {"resolved", "rejected"}}
BodyBegun == {t \in DOMAIN pc : pc[t] \in {"running", "resolved", "rejected"}}

\* C3: at every instant at most N = concurrency task bodies are executing,
\* and the (N+1)-th submitted task has not begun its body unless one of the
\* first N submitted tasks has completed.
C3_AtMostNExecuting ==
    /\ Cardinality(Executing) <= concurrency
    /\ (/\ Len(submitted) > concurrency
        /\ submitted[concurrency + 1] \in BodyBegun)
       => \E j \in 1..concurrency : submitted[j] \in Settled

C3_Witness ==
    /\ concurrency = DEFAULT_CONCURRENCY
    /\ Len(submitted) > concurrency
    /\ submitted[concurrency + 1] \in Executing
    /\ Cardinality(Executing) = concurrency

\* C4: tasks begin in the order they were submitted: the sequence of started
\* tasks is a prefix of the sequence of submitted tasks, whatever the order in
\* which running tasks complete.
C4_FifoAdmission ==
    /\ Len(started) <= Len(submitted)
    /\ \A i \in 1..Len(started) : started[i] = submitted[i]

\* two tasks waited in line while a later-started task completed before an
\* earlier-started one
C4_Witness ==
    /\ Len(started) = NumTasks
    /\ concurrency = DEFAULT_CONCURRENCY
    /\ started # <<1, 2, 3, 4>>
    /\ pc[started[1]] = "running"
    /\ pc[started[2]] \in {"resolved", "rejected"}
    /\ pc[started[4]] = "running"

\* C6: a task that rejects frees its slot as one that resolves does: the
\* queue's running count is the number of executing bodies, a task waits only
\* while all slots are taken, the count is 0 once every task has settled, and
\* no body is entered twice (a rejected task's body ran exactly once).
C6_FailureFreesSlot ==
    /\ running = Cardinality(Executing)
    /\ waiting # <<>> => Cardinality(Executing) = concurrency
    /\ (\A t \in Tasks : t \in Settled) => running = 0
    /\ \A t \in Tasks : bodyRuns[t] <= 1
    /\ \A t \in Tasks : pc[t] = "rejected" => bodyRuns[t] = 1

C6_Witness ==
    /\ concurrency = 1
    /\ \A t \in Tasks : pc[t] = "rejected"
    /\ Len(started) = NumTasks
    /\ running = 0

-----------------------------------------------------------------------------
(* Claims about the chat response, under Spec and FairSpec *)

StreamOpened(r) == res[r].headersSent /\ res[r].status = 200

FramesOfType(r, types) ==
    {i \in 1..Len(res[r].frames) : res[r].frames[i].type \in types}

\* C1: a chat response whose SSE stream was opened and that has been ended
\* holds exactly one terminal frame, `done` or `error`.
C1_ExactlyOneTerminalFrame ==
    \A r \in Reqs :
        (StreamOpened(r) /\ res[r].ended) =>
            Cardinality(FramesOfType(r, {"done", "error"})) = 1

\* C2: when the task of an open SSE stream caught an error, the response is
\* ended only after an `error` frame with the normalized code of that error
\* was written: the last frame of the ended response is that frame.
C2_ErrorFrameBeforeEnd ==
    \A r \in Reqs :
        (StreamOpened(r) /\ res[r].ended /\ caught[r] # NoErr) =>
            /\ res[r].frames # <<>>
            /\ res[r].frames[Len(res[r].frames)] =
                   ErrorFrame(normalizeError(caught[r]))

\* C5: every request whose handler was entered eventually has its response
\* ended, given that every awaited call returns or throws and ready
\* continuations run: from some point on, every request that has entered
\* the handler has its response ended.  (Having entered and being ended both
\* last for ever once true, so this is entered ~> ended for each request.)
C5_ResponseEventuallyEnded ==
    <>[](\A r \in Reqs : pc[r] # "idle" => res[r].ended)

\* a request that waited in line behind another and then failed is ended
C5_Witness ==
    /\ concurrency = 1
    /\ started = <<1, 2>>
    /\ pc[2] = "closed"
    /\ caught[2] = ErrHttp429
    /\ res[2].ended

\* C10: a response holds at most one `meta` frame, and no `token` frame
\* comes before it.
C10_MetaOnceBeforeTokens ==
    \A r \in Reqs :
        /\ Cardinality(FramesOfType(r, {"meta"})) <= 1
        /\ \A i \in FramesOfType(r, {"token"}), j \in FramesOfType(r, {"meta"}) :
               j < i

C10_Witness ==
    \E r \in Reqs :
        /\ res[r].ended
        /\ FramesOfType(r, {"meta"}) # {}
        /\ FramesOfType(r, {"token"}) # {}
        /\ FramesOfType(r, {"done"}) # {}

-----------------------------------------------------------------------------
(* Claims about persistence, under Spec *)

UserTurn == Message("user", UserText)

HasRole(r, role) == \E i \in 1..Len(db[r].messages) : db[r].messages[i].role = role

Generating(r) == pc[r] \in {"context", "open", "stream"}

\* C11: while a request is generating (from the call of streamGenerateContent
\* to the end of its stream) its user message is persisted and no model
\* message is; a model message exists only once the generator has yielded
\* `done`, and it follows the user message; a request that failed after a
\* token was relayed is left with its user message and no model message.
C11_UserTurnBeforeModelTurnAfter ==
    \A r \in Reqs :
        /\ Generating(r) => db[r].messages = <<UserTurn>>
        /\ HasRole(r, "model") =>
               /\ pc[r] = "closed"
               /\ FramesOfType(r, {"done"}) # {}
               /\ Len(db[r].messages) = 2
               /\ db[r].messages[1] = UserTurn
        /\ (/\ pc[r] = "closed"
            /\ caught[r] # NoErr
            /\ FramesOfType(r, {"token"}) # {}) => db[r].messages = <<UserTurn>>

\* a stream that threw after a token was relayed
C11_Witness ==
    \E r \in Reqs :
        /\ pc[r] = "closed"
        /\ caught[r] = ErrTimeout
        /\ FramesOfType(r, {"token"}) # {}
        /\ FramesOfType(r, {"done"}) = {}
        /\ db[r].messages = <<UserTurn>>

\* C12 as claimed: a request that waits in the queue for a free slot has its
\* user message persisted.
C12_QueuedAfterUserTurn ==
    \A r \in Reqs : pc[r] = "queued" => HasRole(r, "user")

\* C12 as amended: the request is handed to the queue before anything is
\* persisted: a request that waits in line, and one whose task has started
\* and is not past its user-turn write, has no message persisted, and a
\* persisted message belongs to a request whose task the queue has started.
C12_UserTurnPersistedByTheTask ==
    \A r \in Reqs :
        /\ pc[r] \in {"queued", "conv", "find", "count", "saveUser"} =>
               db[r].messages = <<>>
        /\ db[r].messages # <<>> =>
               \E i \in 1..Len(started) : started[i] = r

\* a request waits in line, its SSE headers sent and nothing persisted
C12_Witness ==
    \E r \in Reqs :
        /\ pc[r] = "queued"
        /\ res[r].headersSent
        /\ waiting = <<r>>
        /\ db[r] = NoRows

-----------------------------------------------------------------------------
(* Claims about the middlewares, under Spec and AccessSpec *)

Unauthenticated(cred) ==
    \/ cred.header \in {"none", "other"}
    \/ /\ cred.header = "bearer"
       /\ cred.token \in {"", "bad"} \/ cred.user = "notFound"

JsonAnswer(code, statusCode) ==
    [NoResponse EXCEPT !.headersSent = TRUE, !.status = statusCode,
                       !.json = code, !.ended = TRUE]

WasSubmitted(r) == \E i \in 1..Len(submitted) : submitted[i] = r

\* C13: a request with no bearer token, with an invalid token or of an
\* unknown user is answered by the JSON body UNAUTHORIZED with status 401 and
\* nothing else: no SSE header or frame is written, its task is never
\* submitted to the queue and nothing is persisted for it; the same holds of
\* every response with status 401 or 403.
C13_AuthFailuresAnsweredInJson ==
    \A r \in Reqs :
        /\ Unauthenticated(req[r].cred) =>
               /\ res[r] = JsonAnswer("UNAUTHORIZED", 401)
               /\ ~WasSubmitted(r)
               /\ db[r] = NoRows
        /\ res[r].status \in {401, 403} =>
               /\ res[r] \in {JsonAnswer("UNAUTHORIZED", 401),
                               JsonAnswer("FORBIDDEN", 403)}
               /\ ~WasSubmitted(r)
               /\ db[r] = NoRows

\* the token is valid and its user is not found, while another request runs
C13_Witness ==
    \E r \in Reqs :
        /\ pc[r] = "closed"
        /\ req[r].cred = [header |-> "bearer", token |-> "good", user |-> "notFound"]
        /\ res[r].status = 401
        /\ running = 1

In == call.input
Out == call.result

SameDepartment(a) == a.userDept = a.departmentId

HasStoredCode(a) == a.stored.kind = "string" /\ Trim(a.stored.text) # <<>>

SuppliedMissing(a) ==
    a.accessCode.kind \in {"undefined", "null"} \/ a.accessCode = Str(<<>>)

SuppliedEqualsStored(a) == Trim(a.accessCode.text) = Trim(a.stored.text)

SuppliedIsFourDigits(a) ==
    LET c == Trim(a.accessCode.text)
    IN  Len(c) = 4 /\ \A i \in 1..Len(c) : c[i] \in Digits

\* the request reaches the checks the claim is about
AccessChecked == call.done /\ In.user /\ In.departmentId # ""

\* C14 as claimed: 403 FORBIDDEN whenever the departments differ, or the
\* department has a stored code and the supplied code is missing or not equal
\* to it (a code that is not 4 digits included); next() only when the
\* departments match and no code is stored or the supplied code equals it.
C14_ForbiddenUnlessAllowed ==
    AccessChecked =>
        /\ (\/ ~SameDepartment(In)
            \/ /\ In.lookup = "found"
               /\ HasStoredCode(In)
               /\ SuppliedMissing(In) \/ ~SuppliedEqualsStored(In))
               => Out = Rejected(NoResponse, "FORBIDDEN", 403)
        /\ Out.next =>
               /\ SameDepartment(In)
               /\ ~HasStoredCode(In) \/ SuppliedEqualsStored(In)

\* C14 as amended: 403 FORBIDDEN when the departments differ, or the
\* department has a stored code and the supplied code is missing or is a
\* 4-digit code different from it; 400 BAD_REQUEST when the supplied code is
\* present and is not 4 digits; next() exactly when the departments match,
\* the department is found, and no code is stored or the supplied code is 4
\* digits and equal to it; every rejection is one JSON body and no SSE frame.
C14_ForbiddenOrBadRequestUnlessAllowed ==
    AccessChecked =>
        /\ ~SameDepartment(In) => Out = Rejected(NoResponse, "FORBIDDEN", 403)
        /\ (SameDepartment(In) /\ In.lookup = "found" /\ HasStoredCode(In)) =>
               /\ SuppliedMissing(In) =>
                      Out = Rejected(NoResponse, "FORBIDDEN", 403)
               /\ (~SuppliedMissing(In) /\ ~SuppliedIsFourDigits(In)) =>
                      Out = Rejected(NoResponse, "BAD_REQUEST", 400)
               /\ (/\ ~SuppliedMissing(In)
                   /\ SuppliedIsFourDigits(In)
                   /\ ~SuppliedEqualsStored(In)) =>
                      Out = Rejected(NoResponse, "FORBIDDEN", 403)
        /\ Out.next <=>
               /\ SameDepartment(In)
               /\ In.lookup = "found"
               /\ \/ ~HasStoredCode(In)
                  \/ /\ ~SuppliedMissing(In)
                     /\ SuppliedIsFourDigits(In)
                     /\ SuppliedEqualsStored(In)
        /\ Out.next => Out.res = NoResponse
        /\ ~Out.next =>
               /\ Out.res.json # "" /\ Out.res.ended
               /\ Out.res.frames = <<>>

\* a stored code and a supplied code of one digit: 400, not 403
C14_Witness ==
    /\ AccessChecked
    /\ SameDepartment(In)
    /\ In.lookup = "found"
    /\ In.stored = Str(Code1111)
    /\ In.accessCode = Str(<<"1">>)
    /\ Out = Rejected(NoResponse, "BAD_REQUEST", 400)


-----------------------------------------------------------------------------
(* Claims about a client that closes the connection, under DisconnectSpec *)

\* The text of the token frames among frames, in their order.
RECURSIVE TextOf(_)
TextOf(frames) ==
    IF frames = <<>> THEN <<>>
    ELSE (IF Head(frames).type = "token" THEN Head(frames).text ELSE <<>>)
             \o TextOf(Tail(frames))

InBody(r) ==
    pc[r] \in {"conv", "find", "count", "saveUser", "title", "context",
               "open", "stream", "saveModel"}

ModelTurns(r) ==
    {i \in 1..Len(db[r].messages) : db[r].messages[i].role = "model"}

\* C15 as claimed: after the client of a request has closed the connection,
\* while the request is queued or generating, the writes of its events are
\* skipped: no further frame is handed to res.write.
C15_WritesAfterCloseSkipped ==
    [][\A r \in Reqs :
           (res[r].destroyed /\ pc[r] # "closed") =>
               res'[r].frames = res[r].frames]_vars

\* C15 as amended: a client that closes the connection while its request is
\* queued or generating cancels nothing and skips nothing: the response is
\* not writable-ended before the handler ends it, so the guard of the relay
\* does not fire and every event is still handed to res.write; a persisted
\* model message follows the `done` frame and holds the text of all token
\* frames; the slot is held by exactly the tasks whose body has not finished.
C15_CloseCancelsNothing ==
    /\ running = Cardinality({r \in Reqs : InBody(r)})
    /\ \A r \in Reqs :
           /\ InFlight(r) => ~RelayBreaks(res[r])
           /\ \A i \in ModelTurns(r) :
                  /\ FramesOfType(r, {"done"}) # {}
                  /\ db[r].messages[i].text = PersistedText(TextOf(res[r].frames))

\* the client closed the connection and the task ran to its end: the token
\* and `done` frames were handed to res.write and the model message holds
\* the token text
C15_Witness ==
    \E r \in Reqs :
        /\ res[r].destroyed
        /\ pc[r] = "closed"
        /\ caught[r] = NoErr
        /\ FramesOfType(r, {"token"}) # {}
        /\ FramesOfType(r, {"done"}) # {}
        /\ \E i \in ModelTurns(r) : db[r].messages[i].text = TextOf(res[r].frames)


-----------------------------------------------------------------------------
(* Claims about the relay, under Spec *)

Relaying(r) == pc[r] \in {"open", "stream", "saveModel"}

\* What the handler itself writes before the relay: the `conversation` frame
\* of a conversation it created.
WrittenBeforeRelay(r) ==
    IF req[r].hasConv THEN <<>> ELSE <<ConversationFrame>>

-----------------------------------------------------------------------------
(* Claims about failures of the message writes, under Spec *)

RelayedFrames(r) == FramesOfType(r, {"meta", "token", "done"})

-----------------------------------------------------------------------------
(* Claims about the context providers, under Spec *)

\* C18: the failure of a context provider never fails the request: no
\* response is ended with the task having caught the error thrown by a
\* provider's network call; such a request is generated for and its stream
\* ends with `done`.
C18_ProviderFailureNeverFailsRequest ==
    \A r \in Reqs :
        caught[r] = ErrFetch =>
            /\ FramesOfType(r, {"done"}) # {}
            /\ FramesOfType(r, {"error"}) = {}


-----------------------------------------------------------------------------
(* Claims about the web search provider, under WebSpec *)

WebCalled == call.done /\ ~call.input.blank

SearchFailed ==
    \E i \in 1..Len(call.input.outcomes) : ~call.input.outcomes[i].ok

EverySearchFailed ==
    \A i \in 1..Len(call.input.outcomes) : ~call.input.outcomes[i].ok

Deduplicated(results) ==
    \A i, j \in 1..Len(results) :
        i # j => NormalizeUrl(results[i].link) # NormalizeUrl(results[j].link)

Ranked(results) ==
    \A i, j \in 1..Len(results) : i < j => Score(results[i]) >= Score(results[j])

WellFormed(results) ==
    /\ Deduplicated(results)
    /\ \A i \in 1..Len(results) : results[i].link # <<>>
    /\ Ranked(results)

\* C19: maybeGetWebResults returns null whenever a search of the message
\* failed (missing key, status not OK, quota, thrown error), and then no
\* `meta` event is yielded; otherwise its results hold no two entries with
\* the same normalized URL, no entry with an empty link, and are in order of
\* non-increasing score.
C19_NullOnFailedSearchElseRanked ==
    WebCalled =>
        IF SearchFailed
        THEN call.result.null /\ MetaEvents(~call.result.null) = <<>>
        ELSE ~call.result.null /\ WellFormed(call.result.results)

\* what does hold: the results are deduplicated, linked and ranked whether or
\* not a search failed
WebResultsWellFormed == call.done => WellFormed(call.result.results)


-----------------------------------------------------------------------------
(* Claims about the persisted model turn, under Spec *)

\* C20: the text of a persisted model message is never empty: it is the
\* placeholder '(no response)' when no token text was relayed, and the
\* accumulated token text otherwise.
C20_ModelTurnNeverEmpty ==
    \A r \in Reqs :
        \A i \in ModelTurns(r) :
            /\ db[r].messages[i].text # <<>>
            /\ db[r].messages[i].text =
                   IF TextOf(res[r].frames) = <<>> THEN NoResponseText
                   ELSE TextOf(res[r].frames)

\* a stream ended without a chunk of text: the placeholder is persisted
C20_Witness ==
    \E r \in Reqs :
        /\ pc[r] = "closed"
        /\ FramesOfType(r, {"done"}) # {}
        /\ FramesOfType(r, {"token"}) = {}
        /\ db[r].messages = <<UserTurn, Message("model", NoResponseText)>>


-----------------------------------------------------------------------------
(* Claims about buildContents, under ContentsSpec *)

Built == call.done /\ call.input.history # <<>>

AsContents(history) ==
    [i \in 1..Len(history) |-> Content(history[i].role, history[i].text, FALSE)]

IsHistoryContent(c) == \E i \in 1..Len(HistoryTexts) : c.text = HistoryTexts[i]

NewMessageLast(contents) ==
    /\ contents # <<>>
    /\ contents[Len(contents)].role = "user"
    /\ contents[Len(contents)].text = MessageText

\* C21 as claimed: for a non-empty history the contents begin with all the
\* turns of the history, in their order and with their roles, and end with
\* the new message tagged `user`.
C21_WholeHistoryThenMessage ==
    Built =>
        /\ ~call.result.plain
        /\ NewMessageLast(call.result.contents)
        /\ Len(call.result.contents) > Len(call.input.history)
        /\ SubSeq(call.result.contents, 1, Len(call.input.history))
               = AsContents(call.input.history)

HistoryKept(p) ==
    isFollowUpQuestion(p.message, p.history) \/ Len(p.history) <= SHORT_HISTORY

\* C21 as amended: for a non-empty history the contents are a list that ends
\* with the new message tagged `user`; the history turns in it come first
\* and are the last four turns of the history (all of them when there are at
\* most four), in their order and with their roles, when the message is a
\* follow-up or the history has at most two turns, and none otherwise; so a
\* history of two turns is always there whole, before the new message.
C21_RecentHistoryThenMessage ==
    Built =>
        LET contents == call.result.contents
            history == call.input.history
            turns == SelectSeq(contents, IsHistoryContent)
            kept == IF Len(history) <= HISTORY_WINDOW THEN history
                    ELSE [i \in 1..HISTORY_WINDOW |->
                             history[Len(history) - HISTORY_WINDOW + i]]
        IN  /\ ~call.result.plain
            /\ NewMessageLast(contents)
            /\ SubSeq(contents, 1, Len(turns)) = turns
            /\ turns = IF HistoryKept(call.input) THEN AsContents(kept) ELSE <<>>
            /\ Len(history) <= SHORT_HISTORY =>
                   SubSeq(contents, 1, Len(history)) = AsContents(history)

\* a follow-up to a history of more than four turns: its last four are kept
C21_Witness ==
    /\ Built
    /\ Len(call.input.history) > HISTORY_WINDOW
    /\ Len(SelectSeq(call.result.contents, IsHistoryContent)) = HISTORY_WINDOW
    /\ call.result.contents[1].text = HistoryTexts[Len(call.input.history) - HISTORY_WINDOW + 1]
    /\ NewMessageLast(call.result.contents)


-----------------------------------------------------------------------------
(* Claims about countInputTokens, under CountSpec *)

\* C22: countInputTokens never throws: it returns an integer, 0 when the
\* upstream call failed; called once more on the same contents against the
\* same upstream it returns the same integer; and the generator goes on from
\* it to generation.
C22_CountFailsOpen ==
    LET calls == call.result.calls
    IN  /\ \A i \in 1..Len(calls) :
               /\ ~calls[i].threw
               /\ calls[i].value \in Nat
               /\ ~call.input.ok => calls[i].value = 0
        /\ Len(calls) = 2 => calls[1].value = calls[2].value
        /\ call.done => call.result.generating

\* the upstream call failed twice and the generator went on
C22_Witness ==
    /\ ~call.input.ok
    /\ call.result.calls = <<Returned(0), Returned(0)>>
    /\ call.result.generating


-----------------------------------------------------------------------------
(* Claims about the response of a waiting request, under Spec *)

Waits(r) == pc[r] = "queued" \/ \E i \in 1..Len(waiting) : waiting[i] = r

\* C23: the SSE headers of a response are flushed before its task is handed
\* to the queue: every request handed to the queue has its headers sent, and
\* while its task waits for a slot the response is an open SSE stream with no
\* frame written.
C23_HeadersFlushedBeforeQueued ==
    /\ \A i \in 1..Len(submitted) : res[submitted[i]].headersSent
    /\ \A r \in Reqs :
           Waits(r) =>
               /\ StreamOpened(r)
               /\ res[r].frames = <<>>
               /\ ~res[r].ended

\* a request waits with its stream open and empty while another is relayed
C23_Witness ==
    \E r, x \in Reqs :
        /\ Waits(r)
        /\ StreamOpened(r) /\ res[r].frames = <<>>
        /\ pc[x] = "stream"
        /\ FramesOfType(x, {"token"}) # {}

-----------------------------------------------------------------------------
(* C24: the `conversation` frame (ConvSpec)                                 *)

ConversationFrames(r) ==
    SelectSeq(res[r].frames, LAMBDA f : f.type = "conversation")

CarriedNoConversationId(r) == req[r].conversationId = NoConversationId

\* the messages request r wrote
WrittenBy(r) == SelectSeq(db.messages, LAMBDA m : m.by = r)

ReachedGeneration(r) == FramesOfType(r, {"meta", "token", "done"}) # {}

\* C24 as stated: the response of a task that has settled holds a
\* `conversation` frame if and only if the request carried no conversationId
\* and a new conversation was created.
C24_FrameIffNoConversationId ==
    \A r \in Reqs :
        pc[r] = "done" =>
            (ConversationFrames(r) # <<>>
                <=> CarriedNoConversationId(r) /\ db.conversations[r].exists)

\* C24, amended: a `conversation` frame is written only if the request
\* carried no conversationId, and every such request that reaches generation
\* has written it; it is written at most once, before any `meta`, `token` or
\* `done` frame, and it carries the id of the conversation that receives the
\* messages of the request.
C24_FrameOnlyForNewConversation ==
    \A r \in Reqs :
        /\ ConversationFrames(r) # <<>> => CarriedNoConversationId(r)
        /\ CarriedNoConversationId(r) /\ ReachedGeneration(r)
               => ConversationFrames(r) # <<>>
        /\ Len(ConversationFrames(r)) <= 1
        /\ \A i, j \in 1..Len(res[r].frames) :
               /\ res[r].frames[i].type = "conversation"
               /\ res[r].frames[j].type \in {"meta", "token", "done"}
               => i < j
        /\ \A i \in 1..Len(ConversationFrames(r)) :
               /\ WrittenBy(r) # <<>>
               /\ \A k \in 1..Len(WrittenBy(r)) :
                      ConversationFrames(r)[i] =
                          ConversationFrameOf(WrittenBy(r)[k].conversationId)

\* A request without conversationId has streamed to `done` behind its
\* `conversation` frame and both its messages are stored.
C24_Witness ==
    \E r \in Reqs :
        /\ pc[r] = "done"
        /\ CarriedNoConversationId(r)
        /\ res[r].frames # <<>>
        /\ res[r].frames[1] = ConversationFrameOf(r)
        /\ FramesOfType(r, {"done"}) # {}
        /\ Len(WrittenBy(r)) = 2

-----------------------------------------------------------------------------
(* C26: the title of a conversation (ConvSpec)                              *)

TitleIn(database, c) == database.conversations[c].title

\* C26: a request sets the title of a conversation only when no message of
\* the conversation was stored before its own user message, and a title made
\* of a message is never overwritten by the turn of another request.
C26_TitleSetOnFirstTurnOnly ==
    [][\A c \in ConvIds :
          db.conversations[c].exists /\ TitleIn(db', c) # TitleIn(db, c) =>
              /\ TitleIn(db, c) = DefaultTitle
              /\ \E r \in Reqs :
                     /\ TitleIn(db', c) = TitleOf(r)
                     /\ MessagesOf(c) # <<>> => MessagesOf(c)[1].by = r]_vars

-----------------------------------------------------------------------------
(* C27: whose conversation a request writes to (ConvSpec)                   *)

\* conversation c is of the user and of the department of request r
OwnConversation(r, c) ==
    /\ db.conversations[c].userId = req[r].user
    /\ db.conversations[c].departmentId = req[r].departmentId

-----------------------------------------------------------------------------
(* C29: two requests on one conversation (ConvSpec)                         *)

\* where in its conversation the message of request r with this role is
PlaceOf(r, role) ==
    {i \in 1..Len(MessagesOf(req[r].conversationId)) :
        MessagesOf(req[r].conversationId)[i] =
            StoredMessage(req[r].conversationId, role, r)}

InHistory(r, x, role) ==
    \E i \in 1..Len(gen[r].history) :
        gen[r].history[i].by = x /\ gen[r].history[i].role = role

\* C29: in a conversation that requests share, the model message of a
\* request is stored right behind its user message, and the history another
\* request has read holds the user turn of a request only with its model
\* turn, unless that request has ended without one.
C29_TurnsOfARequestStayTogether ==
    \A r \in Reqs :
        /\ req[r].conversationId # NoConversationId =>
               \A i \in PlaceOf(r, "user"), j \in PlaceOf(r, "model") : j = i + 1
        /\ \A x \in Reqs :
               InHistory(r, x, "user") =>
                   InHistory(r, x, "model") \/ pc[x] = "done"

-----------------------------------------------------------------------------
(* C30: DELETE /api/conversations/:id beside the tasks (ConvSpec)           *)

NoTaskInFlight == \A r \in Reqs : pc[r] \in {"idle", "rejected", "done"}

\* C30: once the DELETE has answered 204 and no task is in flight, no stored
\* message is of the deleted conversation.
C30_NoMessageOfDeletedConversation ==
    db.delete.pc = "deleted" /\ NoTaskInFlight =>
        MessagesOf(db.delete.conv) = <<>>

-----------------------------------------------------------------------------
(* C28: the history passed to the generator (HistorySpec)                   *)

\* C28: the history is the most recent messages of the conversation stored
\* before the request, up to 40 of them, oldest first; with more than 40 of
\* them the latest one is in it.
C28_HistoryIsMostRecent ==
    call.done =>
        /\ call.result = SliceLast(PriorMessages(call.input.prior), HISTORY_LIMIT)
        /\ call.input.prior > HISTORY_LIMIT =>
               \E i \in 1..Len(call.result) :
                   call.result[i] = PriorMessage(call.input.prior)

-----------------------------------------------------------------------------
(* C25: the frames of the answer to "what's the weather in Paris?"          *)
(* (StreamSpec)                                                             *)

AsksWeatherInParis == call.input.message = "weather" /\ call.input.geocoded

BehindConversation(frames) ==
    IF frames # <<>> /\ frames[1].type = "conversation" THEN Tail(frames)
    ELSE frames

=============================================================================
